---- MODULE Spec2Model ----
(***************************************************************************)
(* Verification model of the LoanProjects repository.                      *)
(*                                                                         *)
(* Part 1: the browser PDF parser (class PDFParser): file intake by drop   *)
(* or file selection, text extraction, form-type detection, the per-form   *)
(* regular-expression field extraction, and the notifications it shows.    *)
(* Text is modelled at character level: a TLA+ string is the JavaScript    *)
(* string, SubSeq(s, i, i) its i-th character.                             *)
(*                                                                         *)
(* Part 2: the per-Document state machine of the extraction pipeline.      *)
(***************************************************************************)
EXTENDS Integers, Sequences, FiniteSets, TLC

VARIABLES
    subject,        \* the PDF content of the files a.pdf, copy.pdf and scan.png
    analysis,       \* what the parser's pure functions return for the subject
    run,            \* one analysis of the subject, step by step
    lastFiles,      \* the FileList of the most recent handler call
    electron,       \* window.require is defined (desktop shell) or not (browser)
    pdfjsLib,       \* window.pdfjsLib is defined
    pdfjsLoaded,    \* PDFParser.pdfjsLoaded
    extractedData,  \* PDFParser.extractedData: file name -> stored entry
    notifications,  \* the notifications shown by the most recent handler call
    clock,          \* the wall clock read by new Date()
    docState,       \* pipeline state of each Document of the extraction pipeline
    validator,      \* one run of the pipeline's Validator/Reconciler
    ocr,            \* one run of the pipeline's OCR ensemble over the regions
    preprocessor,   \* one run of the pipeline's image preprocessor on a page
    sw,             \* the service worker (sw.js), its caches and the server
    calc,           \* the buydown calculator page (buydown.js)
    themeSwitcher,  \* ThemeSwitcher and the theme in localStorage
    app,            \* LoanToolsApp (app.js) and its localStorage entries
    dropZones,      \* the drop zones of the page and the listeners they carry
    loan            \* one loan and what the buydown calculator computes for it

\* The parts of the repository other than the PDF parser and the Document
\* state machine; each is changed only by its own actions.
restVars ==
    << validator, ocr, preprocessor, sw, calc, themeSwitcher, app, dropZones, loan >>

vars == << subject, analysis, run, lastFiles, electron, pdfjsLib, pdfjsLoaded,
           extractedData, notifications, clock, docState, restVars >>

\* The disk and the environment, which no handler changes.
fixedVars == << subject, analysis, run, electron, docState, restVars >>

\* What the handlers of the parser change.
parserVars == << lastFiles, pdfjsLib, pdfjsLoaded, extractedData, notifications >>

---------------------------------------------------------------------------
(* Bounds of the model.                                                    *)

\* Longest generated document, in text items.
MaxItems == 2
\* Most files in one drop or one file selection.
MaxFiles == 2
\* Last reading of the wall clock.
MaxClock == 1
\* Number of Documents in the pipeline.
MaxDocs == 2
\* Most itemized sub-fields under one stated total.
MaxSubItems == 2
\* Number of Regions the OCR ensemble works on.
MaxRegions == 2
\* Number of secondary recognition providers.
MaxSecondary == 2
\* Number of times a file is changed on the server.
MaxDeploys == 1

---------------------------------------------------------------------------
(* JavaScript strings.                                                     *)

Min(S) == CHOOSE x \in S : \A y \in S : x <= y

Char(s, i) == SubSeq(s, i, i)

Digits == {"0", "1", "2", "3", "4", "5", "6", "7", "8", "9"}

\* The characters of the model's texts that the regular expression class \s matches.
Space == {" ", "\n"}

LowerCase == "abcdefghijklmnopqrstuvwxyz"

UpperCase == "ABCDEFGHIJKLMNOPQRSTUVWXYZ"

UpperOf(c) ==
    LET at == {k \in 1..Len(LowerCase) : Char(LowerCase, k) = c}
    IN  IF at = {} THEN c ELSE Char(UpperCase, CHOOSE k \in at : TRUE)

RECURSIVE UpperBetween(_, _, _)
\* Characters lo..hi of s in upper case (halving keeps the recursion shallow).
UpperBetween(s, lo, hi) ==
    IF lo > hi THEN ""
    ELSE IF lo = hi THEN UpperOf(Char(s, lo))
    ELSE LET mid == (lo + hi) \div 2
         IN  UpperBetween(s, lo, mid) \o UpperBetween(s, mid + 1, hi)

\* String.prototype.toUpperCase
toUpperCase(s) == UpperBetween(s, 1, Len(s))

\* s has p at position i
HasAt(s, p, i) ==
    /\ i + Len(p) - 1 <= Len(s)
    /\ SubSeq(s, i, i + Len(p) - 1) = p

\* String.prototype.includes
includes(s, p) == \E i \in 1..(Len(s) - Len(p) + 1) : HasAt(s, p, i)

RECURSIVE Span(_, _, _)
\* First position from i on whose character is not in class (Len(s) + 1 if none):
\* where a greedy class* started at i stops.
Span(s, i, class) ==
    IF i > Len(s) \/ Char(s, i) \notin class THEN i ELSE Span(s, i + 1, class)

RECURSIVE RemoveFrom(_, _, _)
RemoveFrom(s, i, class) ==
    IF i > Len(s) THEN ""
    ELSE (IF Char(s, i) \in class THEN "" ELSE Char(s, i)) \o RemoveFrom(s, i + 1, class)

\* value.replace(/[$,]/g, '')
StripCurrency(s) == RemoveFrom(s, 1, {"$", ","})

DigitValue(c) == CHOOSE v \in 0..9 : Char("0123456789", v + 1) = c

RECURSIVE NatOf(_, _)
\* The number written by the first n characters (digits) of s.
NatOf(s, n) ==
    IF n = 0 THEN 0 ELSE 10 * NatOf(s, n - 1) + DigitValue(Char(s, n))

\* A fraction's digits without its trailing zeros.
RECURSIVE TrimZeros(_)
TrimZeros(s) ==
    IF Len(s) > 0 /\ Char(s, Len(s)) = "0" THEN TrimZeros(SubSeq(s, 1, Len(s) - 1))
    ELSE s

\* A JavaScript number: NaN, or a finite decimal given by its whole part and the
\* digits of its fraction.
NaN == [nan |-> TRUE, whole |-> 0, frac |-> ""]

Number(w, f) == [nan |-> FALSE, whole |-> w, frac |-> f]

\* parseFloat on an unsigned decimal: leading white space is skipped, the longest
\* prefix digits[.digits] is read, NaN when that prefix holds no digit.
parseFloat(s) ==
    LET a == Span(s, 1, Space)
        b == Span(s, a, Digits)
        c == IF b <= Len(s) /\ Char(s, b) = "." THEN Span(s, b + 1, Digits) ELSE b
        whole == SubSeq(s, a, b - 1)
        frac == IF c > b THEN SubSeq(s, b + 1, c - 1) ELSE ""
    IN  IF Len(whole) = 0 /\ Len(frac) = 0 THEN NaN
        ELSE Number(NatOf(whole, Len(whole)), TrimZeros(frac))

\* PDFParser.parseCurrency, on the strings the extractors pass to it.
parseCurrency(value) == parseFloat(StripCurrency(value))

---------------------------------------------------------------------------
(* Regular expressions of the extractors.                                  *)

\* No match (String.prototype.match returned null).
NoMatch == << >>

\* \s*([\d,]+\.?\d*) from position b: << start of the capture, end of the
\* match + 1 >>, or NoMatch. Each quantifier is greedy; giving a character back
\* never turns a failure into a match, since what \s* gives back is not in [\d,].
AmountTail(s, b) ==
    LET c == Span(s, b, Space)
        d == Span(s, c, Digits \cup {","})
        e == IF d <= Len(s) /\ Char(s, d) = "." THEN d + 1 ELSE d
        f == Span(s, e, Digits)
    IN  IF d > c THEN << c, f >> ELSE NoMatch

\* \s*\$?\s*([\d,]+\.?\d*) from position j. A "$" that \$? gives back is neither
\* in \s nor in [\d,], so the greedy choice decides.
CurrencyTail(s, j) ==
    LET a == Span(s, j, Space)
        b == IF a <= Len(s) /\ Char(s, a) = "$" THEN a + 1 ELSE a
    IN  AmountTail(s, b)

\* \s*([\d.]+)% from position j.
PercentTail(s, j) ==
    LET a == Span(s, j, Space)
        d == Span(s, a, Digits \cup {"."})
    IN  IF d > a /\ d <= Len(s) /\ Char(s, d) = "%" THEN << a, d >> ELSE NoMatch

\* A pattern /(?:label1|label2)<tail>/i of a pattern table.
\* labels are the alternatives as written, upper the same in upper case.
Currency(l1, l2) ==
    [labels |-> << l1, l2 >>, upper |-> << toUpperCase(l1), toUpperCase(l2) >>,
     kind |-> "currency"]

Percent(l1, l2) ==
    [labels |-> << l1, l2 >>, upper |-> << toUpperCase(l1), toUpperCase(l2) >>,
     kind |-> "percent"]

\* The match of pattern at position i of s (up is s in upper case, for the i
\* flag): the alternatives are tried in order.
MatchAt(pattern, s, up, i) ==
    LET try(k) ==
            IF HasAt(up, pattern.upper[k], i)
            THEN IF pattern.kind = "currency"
                 THEN CurrencyTail(s, i + Len(pattern.labels[k]))
                 ELSE PercentTail(s, i + Len(pattern.labels[k]))
            ELSE NoMatch
        first == try(1)
    IN  IF first # NoMatch THEN first ELSE try(2)

\* text.match(pattern)[1]: the capture of the leftmost match, or NoMatch
\* (up is s in upper case).
match(s, up, pattern) ==
    LET hits == {i \in 1..Len(s) : MatchAt(pattern, s, up, i) # NoMatch}
    IN  IF hits = {} THEN NoMatch
        ELSE LET m == MatchAt(pattern, s, up, Min(hits))
             IN  << SubSeq(s, m[1], m[2] - 1) >>

\* The match of /\$?\s*([\d,]+\.?\d*)/ starting at position i:
\* << start, end + 1 >>, or NoMatch.
CurrencyAt(s, i) ==
    LET b == IF Char(s, i) = "$" THEN i + 1 ELSE i
        m == AmountTail(s, b)
    IN  IF m = NoMatch THEN NoMatch ELSE << i, m[2] >>

RECURSIVE CurrencyMatches(_, _)
\* text.match(/\$?\s*([\d,]+\.?\d*)/g) from position i: the matched substrings.
CurrencyMatches(s, i) ==
    LET hits == {j \in i..Len(s) : CurrencyAt(s, j) # NoMatch}
    IN  IF hits = {} THEN << >>
        ELSE LET m == CurrencyAt(s, Min(hits))
             IN  << SubSeq(s, m[1], m[2] - 1) >> \o CurrencyMatches(s, m[2])

\* The match of /([\d.]+)%/ starting at position i.
PercentAt(s, i) ==
    LET d == Span(s, i, Digits \cup {"."})
    IN  IF d > i /\ d <= Len(s) /\ Char(s, d) = "%" THEN << i, d + 1 >> ELSE NoMatch

RECURSIVE PercentMatches(_, _)
\* text.match(/([\d.]+)%/g) from position i.
PercentMatches(s, i) ==
    LET hits == {j \in i..Len(s) : PercentAt(s, j) # NoMatch}
    IN  IF hits = {} THEN << >>
        ELSE LET m == PercentAt(s, Min(hits))
             IN  << SubSeq(s, m[1], m[2] - 1) >> \o PercentMatches(s, m[2])

---------------------------------------------------------------------------
(* PDFParser: form types and pattern tables.                               *)

\* The keys of PDFParser.supportedFormTypes.
supportedFormTypes ==
    {"1040", "1065", "1120", "1120S", "Schedule C", "Schedule E", "Schedule B",
     "Schedule D", "K1", "Loan Estimate", "Closing Disclosure", "Paystub", "W2",
     "1099"}

\* PDFParser.detectFormType: the first branch whose signature the upper-cased
\* text includes.
detectFormType(text) ==
    LET upperText == toUpperCase(text)
        has(p) == includes(upperText, p)
    IN  IF has("FORM 1040") \/ has("INDIVIDUAL INCOME TAX RETURN") THEN "1040"
        ELSE IF has("FORM 1065") \/ has("PARTNERSHIP RETURN") THEN "1065"
        ELSE IF has("FORM 1120") \/ has("CORPORATE INCOME TAX RETURN") THEN "1120"
        ELSE IF has("FORM 1120S") \/ has("S CORPORATION") THEN "1120S"
        ELSE IF has("SCHEDULE C") \/ has("PROFIT OR LOSS FROM BUSINESS") THEN "Schedule C"
        ELSE IF has("SCHEDULE E") \/ has("SUPPLEMENTAL INCOME AND LOSS") THEN "Schedule E"
        ELSE IF has("SCHEDULE B") \/ has("INTEREST AND ORDINARY DIVIDENDS") THEN "Schedule B"
        ELSE IF has("SCHEDULE D") \/ has("CAPITAL GAINS AND LOSSES") THEN "Schedule D"
        ELSE IF has("K-1") \/ has("SCHEDULE K-1") THEN "K1"
        ELSE IF has("LOAN ESTIMATE") THEN "Loan Estimate"
        ELSE IF has("CLOSING DISCLOSURE") THEN "Closing Disclosure"
        ELSE IF has("W-2") \/ has("WAGE AND TAX STATEMENT") THEN "W2"
        ELSE IF has("1099") THEN "1099"
        ELSE IF has("PAYSTUB") \/ has("PAYROLL") \/ has("PAY CHECK") THEN "Paystub"
        ELSE "Unknown"

\* The pattern tables of the extractors, each a field name with its pattern, in
\* the order of the object literal.
patterns1040 ==
    << << "wages", Currency("Wages, salaries, tips, etc.", "Line 1") >>,
       << "businessIncome", Currency("Business income or loss", "Line 3") >>,
       << "totalIncome", Currency("Total income", "Line 9") >>,
       << "adjustedGrossIncome", Currency("Adjusted gross income", "Line 11") >>,
       << "taxableIncome", Currency("Taxable income", "Line 15") >>,
       << "totalTax", Currency("Total tax", "Line 24") >> >>

patternsScheduleC ==
    << << "grossReceipts", Currency("Gross receipts or sales", "Line 1") >>,
       << "returns", Currency("Returns and allowances", "Line 2") >>,
       << "otherIncome", Currency("Other income", "Line 6") >>,
       << "grossIncome", Currency("Gross income", "Line 7") >>,
       << "totalExpenses", Currency("Total expenses", "Line 28") >>,
       << "netProfit", Currency("Net profit or loss", "Line 31") >> >>

patternsScheduleE ==
    << << "rentalIncome", Currency("Rents received", "Line 3") >>,
       << "rentalExpenses", Currency("Total rental expenses", "Line 20") >>,
       << "netRentalIncome", Currency("Net rental income or loss", "Line 21") >> >>

patternsW2 ==
    << << "wages", Currency("Wages, tips, other comp.", "Box 1") >>,
       << "federalTax", Currency("Federal income tax withheld", "Box 2") >>,
       << "socialSecurity", Currency("Social security wages", "Box 3") >>,
       << "medicare", Currency("Medicare wages and tips", "Box 5") >> >>

patternsLoanEstimate ==
    << << "loanAmount", Currency("Loan amount", "Principal and Interest") >>,
       << "interestRate", Percent("Interest rate", "Rate") >>,
       << "monthlyPayment", Currency("Estimated total monthly payment", "Monthly Payment") >>,
       << "totalClosingCosts", Currency("Total closing costs", "Closing Costs") >> >>

patternsClosingDisclosure ==
    << << "loanAmount", Currency("Loan amount", "Principal and Interest") >>,
       << "interestRate", Percent("Interest rate", "Rate") >>,
       << "monthlyPayment", Currency("Estimated total monthly payment", "Monthly Payment") >>,
       << "totalClosingCosts", Currency("Total closing costs", "Closing Costs") >>,
       << "cashToClose", Currency("Cash to close", "Cash to Borrower") >> >>

\* extractByPatterns with every field of the table initialised to 0 before the
\* loop, so that an unmatched field keeps the default.
extractByPatterns_default(text, patterns) ==
    LET up == toUpperCase(text)
        entry(field) == CHOOSE k \in 1..Len(patterns) : patterns[k][1] = field
        value(k) ==
            IF match(text, up, patterns[k][2]) = NoMatch THEN Number(0, "")
            ELSE IF patterns[k][2].kind = "percent"
            THEN parseFloat(match(text, up, patterns[k][2])[1])
            ELSE parseCurrency(match(text, up, patterns[k][2])[1])
    IN  [field \in {patterns[k][1] : k \in 1..Len(patterns)} |-> value(entry(field))]

\* The loop of every table extractor: for each entry of the table whose pattern
\* matches, data[field] is the parsed capture; a field whose pattern does not
\* match gets no key. A currency capture goes through parseCurrency, the
\* interest rate through parseFloat.
extractByPatterns(text, patterns) ==
    LET up == toUpperCase(text)
        found == {k \in 1..Len(patterns) : match(text, up, patterns[k][2]) # NoMatch}
        entry(field) == CHOOSE k \in found : patterns[k][1] = field
        value(k) ==
            IF patterns[k][2].kind = "percent"
            THEN parseFloat(match(text, up, patterns[k][2])[1])
            ELSE parseCurrency(match(text, up, patterns[k][2])[1])
    IN  [field \in {patterns[k][1] : k \in found} |-> value(entry(field))]

extract1040Data(text) == extractByPatterns(text, patterns1040)

\* extractScheduleCData with the pattern table of extract1040Data pasted in.
extractScheduleCData_1040(text) == extractByPatterns(text, patterns1040)

extractScheduleCData(text) == extractByPatterns(text, patternsScheduleC)

extractScheduleEData(text) == extractByPatterns(text, patternsScheduleE)

extractW2Data(text) == extractByPatterns(text, patternsW2)

extractLoanEstimateData(text) == extractByPatterns(text, patternsLoanEstimate)

extractClosingDisclosureData(text) == extractByPatterns(text, patternsClosingDisclosure)

\* PDFParser.extractGenericData: every currency-shaped and every percent-shaped
\* substring; a key is set only when its pattern matched at least once.
extractGenericData(text) ==
    LET matches == CurrencyMatches(text, 1)
        percentMatches == PercentMatches(text, 1)
        keys == (IF matches # << >> THEN {"currencyValues"} ELSE {})
                    \cup (IF percentMatches # << >> THEN {"percentages"} ELSE {})
    IN  [key \in keys |->
            IF key = "currencyValues"
            THEN [k \in 1..Len(matches) |-> parseCurrency(matches[k])]
            ELSE [k \in 1..Len(percentMatches) |-> parseFloat(percentMatches[k])]]

\* The confidence literal written as a percentage: confidence: 80.
DefaultConfidence_percent == [num |-> 80, den |-> 1]

\* The confidence literal of extractDataByFormType, 0.8, as a fraction.
DefaultConfidence == [num |-> 8, den |-> 10]

\* PDFParser.extractDataByFormType
extractDataByFormType(text, formType) ==
    [formType |-> formType,
     extractedFields |->
        CASE formType = "1040" -> extract1040Data(text)
          [] formType = "Schedule C" -> extractScheduleCData(text)
          [] formType = "Schedule E" -> extractScheduleEData(text)
          [] formType = "W2" -> extractW2Data(text)
          [] formType = "Loan Estimate" -> extractLoanEstimateData(text)
          [] formType = "Closing Disclosure" -> extractClosingDisclosureData(text)
          [] OTHER -> extractGenericData(text),
     confidence |-> DefaultConfidence]

---------------------------------------------------------------------------
(* Documents and files.                                                    *)

\* A PDF: whether opening it needs a passphrase ("password"), whether its
\* container is unreadable ("corrupt"), and its pages, each the text items
\* (item.str) that getTextContent returns for the page.
Pdf(protection, pages) == [protection |-> protection, pages |-> pages]

\* The text items the generated documents are made of.
Items ==
    {"SCHEDULE C", "Form 1040", "Net profit or loss $ 69,297", "Line 31 0",
     "Total expenses"}

RECURSIVE SeqsUpTo(_, _)
\* The sequences of at most n elements of S.
SeqsUpTo(S, n) ==
    IF n = 0 THEN {<< >>}
    ELSE LET shorter == SeqsUpTo(S, n - 1)
         IN  shorter \cup {Append(q, x) : q \in shorter, x \in S}

\* One-page documents of at most MaxItems items.
GeneratedDocs == {Pdf("none", << items >>) : items \in SeqsUpTo(Items, MaxItems)}

\* A clean, digitally generated Schedule C: net profit 69,297, meals 4,250, every
\* other itemized field 0.
CleanScheduleC ==
    Pdf("none",
        << << "SCHEDULE C", "Profit or Loss From Business" >>,
           << "Net profit or loss", "69,297", "Other income", "0", "Depletion", "0",
              "Depreciation", "0", "Meals", "4,250", "Home office", "0" >> >>)

\* A wage statement.
WageStatement ==
    Pdf("none", << << "W-2 Wage and Tax Statement", "Box 1", "52,000.00", "Box 2 $ 6,100" >> >>)

SampleDocs ==
    {CleanScheduleC, WageStatement,
     Pdf("none", << << "Schedule E", "Rents received 24,000" >>, << "Line 21", "," >> >>),
     Pdf("none", << << "Loan Estimate", "Loan amount $250,000", "Interest rate 6.5%" >> >>),
     Pdf("none", << << "Closing Disclosure", "Cash to close $12,500.75", "Rate 7%" >> >>),
     Pdf("none", << << "Form 1120S", "S corporation", "Ordinary income 10,000", "50%" >> >>),
     Pdf("none", << << "Form 1065", "Partnership Return" >> >>),
     Pdf("none", << << "Invoice 2023", "Amount due $1,200.00", "Tax 8%" >> >>),
     Pdf("password", << << "Form 1040", "Line 9 80,000" >> >>),
     Pdf("corrupt", << >>)}

Docs == GeneratedDocs \cup SampleDocs

RECURSIVE join(_, _)
\* Array.prototype.join
join(items, sep) ==
    IF items = << >> THEN ""
    ELSE IF Len(items) = 1 THEN items[1]
    ELSE items[1] \o sep \o join(Tail(items), sep)

RECURSIVE TextOfPages(_)
\* The loop over the pages of processPDFInBrowser: each page's items joined by a
\* blank, each page followed by a line break.
TextOfPages(pages) ==
    IF pages = << >> THEN ""
    ELSE join(pages[1], " ") \o "\n" \o TextOfPages(Tail(pages))

\* What processPDFInBrowser computes from an opened PDF: fullText, formType and
\* extractedData. These are functions of the PDF alone, so the model evaluates
\* them once per PDF, when the files are chosen, and keeps the result in the
\* variable analysis.
Analysis(pdf) ==
    LET fullText == TextOfPages(pdf.pages)
        formType == detectFormType(fullText)
    IN  [rawText |-> fullText, formType |-> formType,
         data |-> extractDataByFormType(fullText, formType)]

PdfType == "application/pdf"

File(name, type, pdf) == [name |-> name, type |-> type, pdf |-> pdf]

\* The files the user can drop or select: two copies of the subject, an image
\* with the same bytes.
Files(subj) ==
    {File("a.pdf", PdfType, subj), File("copy.pdf", PdfType, subj),
     File("scan.png", "image/png", subj)}

FileNames == {"a.pdf", "copy.pdf", "scan.png"}

\* A FileList: at most MaxFiles files, each once.
FileLists(subj) ==
    {q \in SeqsUpTo(Files(subj), MaxFiles) : \A i, j \in 1..Len(q) : q[i] = q[j] => i = j}

---------------------------------------------------------------------------
(* PDFParser: processing one file.                                         *)

\* What a handler works on: the parser's fields, window.pdfjsLib, and the
\* notifications shown so far.
ParserState(lib, loaded, data, shown) ==
    [pdfjsLib |-> lib, pdfjsLoaded |-> loaded, extractedData |-> data,
     notifications |-> shown]

\* showNotification(message, type), for the file it is about.
Notification(type, name, message) == [type |-> type, file |-> name, message |-> message]

Notify(st, type, name, message) ==
    [st EXCEPT !.notifications = Append(@, Notification(type, name, message))]

\* The outcome of a step that may throw: the state it leaves and the message of
\* the Error thrown ("" when it returns normally).
Outcome(st, thrown) == [st |-> st, thrown |-> thrown]

\* The 'process-pdf' handler of the desktop shell's main process, which answers
\* ipcRenderer.invoke: { success, data } or { success: false, error }.
mainProcessPDF(pdf) ==
    IF pdf.protection = "password" THEN [success |-> FALSE, error |-> "EncryptedDocument"]
    ELSE IF pdf.protection = "corrupt" THEN [success |-> FALSE, error |-> "CorruptedFile"]
    ELSE [success |-> TRUE, data |-> [origin |-> "process-pdf"]]

\* PDFParser.processPDFInElectron
processPDFInElectron(file, st) ==
    LET result == mainProcessPDF(file.pdf)
    IN  IF result.success
        THEN Outcome(
                Notify([st EXCEPT !.extractedData = (file.name :> result.data) @@ @],
                       "success", file.name, "Successfully processed"),
                "")
        ELSE Outcome(st, result.error)

\* getDocument opening a protected document as if a password had been given.
getDocument_open(pdf) ==
    IF pdf.protection = "corrupt" THEN "Invalid PDF structure." ELSE ""

\* pdfjsLib.getDocument({ data }).promise: the message of the exception PDF.js
\* rejects with, "" when the document opens. No password is passed.
getDocument(pdf) ==
    IF pdf.protection = "password" THEN "No password given"
    ELSE IF pdf.protection = "corrupt" THEN "Invalid PDF structure."
    ELSE ""

\* BrowserEntry with the patterns kept as shared /g regular expressions: after a
\* text was searched to its end, lastIndex is stale and searching the same text
\* again finds nothing.
BrowserEntry_sticky(file, st, now) ==
    LET a == analysis[file.pdf]
        seen == \E n \in DOMAIN st.extractedData :
                    /\ "rawText" \in DOMAIN st.extractedData[n]
                    /\ st.extractedData[n].rawText = a.rawText
    IN  [formType |-> a.formType,
         data |-> IF seen THEN [a.data EXCEPT !.extractedFields = << >>] ELSE a.data,
         rawText |-> a.rawText, fileName |-> file.name, processedAt |-> now]

\* The entry processPDFInBrowser stores for a file.
BrowserEntry(file, st, now) ==
    LET a == analysis[file.pdf]
    IN  [formType |-> a.formType, data |-> a.data, rawText |-> a.rawText,
         fileName |-> file.name, processedAt |-> now]

\* PDFParser.processPDFInBrowser. cdn: the script of PDF.js can be fetched.
\* loadPDFJS runs when window.pdfjsLib is missing: it returns at once when
\* pdfjsLoaded is set, and else defines window.pdfjsLib or rejects.
processPDFInBrowser(file, st, cdn, now) ==
    LET load == ~st.pdfjsLib /\ ~st.pdfjsLoaded
        lib == st.pdfjsLib \/ (load /\ cdn)
        loaded == [st EXCEPT !.pdfjsLib = lib, !.pdfjsLoaded = @ \/ (load /\ cdn)]
        error ==
            IF load /\ ~cdn THEN "Failed to load PDF.js library"
            ELSE IF ~lib THEN "PDF.js library not available"
            ELSE getDocument(file.pdf)
        entry == BrowserEntry(file, st, now)
    IN  IF error = ""
        THEN Outcome(
                Notify([loaded EXCEPT !.extractedData = (file.name :> entry) @@ @],
                       "success", file.name, "Successfully processed (" \o entry.formType \o ")"),
                "")
        ELSE Outcome(Notify(loaded, "error", file.name, error), error)

\* PDFParser.processPDFFile
processPDFFile(file, st, inElectron, cdn, now) ==
    LET started == Notify(st, "info", file.name, "Processing")
        out == IF inElectron THEN processPDFInElectron(file, started)
               ELSE processPDFInBrowser(file, started, cdn, now)
    IN  IF out.thrown = "" THEN out.st
        ELSE Notify(out.st, "error", file.name, out.thrown)

RECURSIVE processEach(_, _, _, _, _)
\* for (const file of pdfFiles) await this.processPDFFile(file)
processEach(files, st, inElectron, cdn, now) ==
    IF files = << >> THEN st
    ELSE processEach(Tail(files), processPDFFile(files[1], st, inElectron, cdn, now),
                     inElectron, cdn, now)

\* The handlers without the filter on file.type.
pdfFilesOf_all(files) == files

\* files.filter(file => file.type === 'application/pdf')
pdfFilesOf(files) == SelectSeq(files, LAMBDA f : f.type = PdfType)

\* The body shared by handleDrop and handleFileSelection: with no PDF among the
\* files a warning and nothing else, otherwise every PDF processed in order.
handleFiles(files, st, warning, inElectron, cdn, now) ==
    LET pdfFiles == pdfFilesOf(files)
    IN  IF Len(pdfFiles) = 0 THEN Notify(st, "warning", "", warning)
        ELSE processEach(pdfFiles, st, inElectron, cdn, now)

\* The parser's state before a handler runs; the notifications start empty, so
\* that the variable holds those of the latest handler call.
Before == ParserState(pdfjsLib, pdfjsLoaded, extractedData, << >>)

Becomes(st) ==
    /\ pdfjsLib' = st.pdfjsLib
    /\ pdfjsLoaded' = st.pdfjsLoaded
    /\ extractedData' = st.extractedData
    /\ notifications' = st.notifications

\* Whether the script of PDF.js can be fetched; read only by a browser page that
\* has no window.pdfjsLib yet.
Network == IF electron \/ pdfjsLib THEN {TRUE} ELSE BOOLEAN

\* PDFParser.handleDrop, for the files of e.dataTransfer
handleDrop ==
    \E files \in FileLists(subject), cdn \in Network :
        /\ Becomes(handleFiles(files, Before, "Please drop PDF files only",
                               electron, cdn, clock))
        /\ lastFiles' = files
        /\ UNCHANGED << fixedVars, clock >>

\* PDFParser.handleFileSelection
handleFileSelection ==
    \E files \in FileLists(subject), cdn \in Network :
        /\ Becomes(handleFiles(files, Before, "Please select PDF files only",
                               electron, cdn, clock))
        /\ lastFiles' = files
        /\ UNCHANGED << fixedVars, clock >>

\* Time passes.
Tick ==
    /\ clock < MaxClock
    /\ clock' = clock + 1
    /\ UNCHANGED << fixedVars, parserVars >>

\* No entry stored: this.extractedData = {}
NoData == [name \in {} |-> 0]

\* Every Document of the pipeline starts in Received.
AllReceived == [d \in 1..MaxDocs |-> "Received"]

\* A part of the repository that is not running.
Off == [pc |-> "off"]

RestIdle ==
    /\ validator = Off
    /\ ocr = Off
    /\ preprocessor = Off
    /\ sw = Off
    /\ calc = Off
    /\ themeSwitcher = Off
    /\ app = Off
    /\ dropZones = Off
    /\ loan = Off

\* The state after new PDFParser(): nothing stored, nothing shown. The page may
\* or may not have loaded PDF.js with a script tag of its own.
Init ==
    /\ subject \in SampleDocs
    /\ analysis = [pdf \in {subject} |-> Analysis(pdf)]
    /\ run = [stage |-> "idle"]
    /\ lastFiles = << >>
    /\ electron \in BOOLEAN
    /\ pdfjsLib \in BOOLEAN
    /\ pdfjsLoaded = FALSE
    /\ extractedData = NoData
    /\ notifications = << >>
    /\ clock = 0
    /\ docState = AllReceived
    /\ RestIdle

Next == handleDrop \/ handleFileSelection \/ Tick

Spec == Init /\ [][Next]_vars

---------------------------------------------------------------------------
(* The analysis of one opened PDF, step by step: the three steps that      *)
(* processPDFInBrowser takes between getDocument and the store.            *)

\* The loop over the pages: fullText.
extractText ==
    /\ run.stage = "opened"
    /\ run' = [stage |-> "text", rawText |-> TextOfPages(subject.pages)]
    /\ UNCHANGED << subject, analysis, electron, docState, parserVars, clock, restVars >>

\* const formType = this.detectFormType(fullText)
detect ==
    /\ run.stage = "text"
    /\ run' = [stage |-> "typed", rawText |-> run.rawText,
               formType |-> detectFormType(run.rawText)]
    /\ UNCHANGED << subject, analysis, electron, docState, parserVars, clock, restVars >>

\* const extractedData = this.extractDataByFormType(fullText, formType)
extract ==
    /\ run.stage = "typed"
    /\ run' = [stage |-> "done", rawText |-> run.rawText, formType |-> run.formType,
               data |-> extractDataByFormType(run.rawText, run.formType)]
    /\ UNCHANGED << subject, analysis, electron, docState, parserVars, clock, restVars >>

\* A PDF that getDocument opened, in a browser page with PDF.js.
InitExtract ==
    /\ subject \in {pdf \in Docs : getDocument(pdf) = ""}
    /\ analysis = NoData
    /\ run = [stage |-> "opened"]
    /\ lastFiles = << >>
    /\ electron = FALSE
    /\ pdfjsLib = TRUE
    /\ pdfjsLoaded = FALSE
    /\ extractedData = NoData
    /\ notifications = << >>
    /\ clock = 0
    /\ docState = AllReceived
    /\ RestIdle

NextExtract == extractText \/ detect \/ extract

SpecExtract == InitExtract /\ [][NextExtract]_vars

---------------------------------------------------------------------------
(* The state machine of a Document in the extraction pipeline; the pipeline *)
(* is described by spec.md, its code is not among the sources.              *)

\* The stages a Document passes in order, up to validation.
StageOrder ==
    << "Received", "Normalized", "Preprocessed", "LayoutDetected",
       "StructureExtracted", "Recognized", "FieldsMapped", "Validated" >>

Terminal == {"Completed", "Failed"}

\* Nothing of the parser moves while the pipeline runs.
pipelineFrame == << subject, analysis, run, electron, parserVars, clock, restVars >>

\* A stage finishes and hands the Document to the next one.
Advance(d) ==
    \E k \in 1..(Len(StageOrder) - 1) :
        /\ docState[d] = StageOrder[k]
        /\ docState' = [docState EXCEPT ![d] = StageOrder[k + 1]]
        /\ UNCHANGED pipelineFrame

\* Validated -> Completed: nothing to review.
Complete(d) ==
    /\ docState[d] = "Validated"
    /\ docState' = [docState EXCEPT ![d] = "Completed"]
    /\ UNCHANGED pipelineFrame

\* Validated -> NeedsReview: ambiguous or low-confidence fields.
RouteToReview(d) ==
    /\ docState[d] = "Validated"
    /\ docState' = [docState EXCEPT ![d] = "NeedsReview"]
    /\ UNCHANGED pipelineFrame

\* Review with the corrections sent back into the pipeline state.
Review_loopBack(d) ==
    /\ docState[d] = "NeedsReview"
    /\ docState' = [docState EXCEPT ![d] = "Validated"]
    /\ UNCHANGED pipelineFrame

\* NeedsReview -> Reviewed: a human corrected or accepted the fields.
Review(d) ==
    /\ docState[d] = "NeedsReview"
    /\ docState' = [docState EXCEPT ![d] = "Reviewed"]
    /\ UNCHANGED pipelineFrame

\* Reviewed -> Completed
Finish(d) ==
    /\ docState[d] = "Reviewed"
    /\ docState' = [docState EXCEPT ![d] = "Completed"]
    /\ UNCHANGED pipelineFrame

\* Any stage may end in Failed on an unrecoverable error.
Fail(d) ==
    /\ docState[d] \notin Terminal
    /\ docState' = [docState EXCEPT ![d] = "Failed"]
    /\ UNCHANGED pipelineFrame

\* The PDF parser and the Documents at rest.
ParserIdle ==
    /\ subject = WageStatement
    /\ analysis = NoData
    /\ run = [stage |-> "idle"]
    /\ lastFiles = << >>
    /\ electron = FALSE
    /\ pdfjsLib = FALSE
    /\ pdfjsLoaded = FALSE
    /\ extractedData = NoData
    /\ notifications = << >>
    /\ clock = 0
    /\ docState = AllReceived

InitDoc == ParserIdle /\ RestIdle

NextDoc ==
    \E d \in 1..MaxDocs :
        \/ Advance(d)
        \/ Complete(d)
        \/ RouteToReview(d)
        \/ Review(d)
        \/ Finish(d)
        \/ Fail(d)

SpecDoc == InitDoc /\ [][NextDoc]_vars

---------------------------------------------------------------------------
(* Properties of the extraction, checked under SpecExtract.                *)

\* The result of the finished analysis.
Result == run.data

\* The pattern table extractDataByFormType uses for a form type; none for the
\* types that go to the generic extractor.
patternsOf(formType) ==
    CASE formType = "1040" -> patterns1040
      [] formType = "Schedule C" -> patternsScheduleC
      [] formType = "Schedule E" -> patternsScheduleE
      [] formType = "W2" -> patternsW2
      [] formType = "Loan Estimate" -> patternsLoanEstimate
      [] formType = "Closing Disclosure" -> patternsClosingDisclosure
      [] OTHER -> << >>

\* The field names an extractor can set: the keys of its pattern table, and for
\* the generic extractor its two keys.
TemplateFields(formType) ==
    IF patternsOf(formType) = << >> THEN {"currencyValues", "percentages"}
    ELSE {patternsOf(formType)[k][1] : k \in 1..Len(patternsOf(formType))}

\* The pattern matches somewhere in the text.
Occurs(text, pattern) ==
    \E i \in 1..Len(text) : MatchAt(pattern, text, toUpperCase(text), i) # NoMatch

\* C1: every confidence the extraction emits lies in [0,1]: whatever the text
\* and the detected form type, the confidence of the result of
\* extractDataByFormType is at least 0 and at most 1.
C1_ConfidenceInUnitInterval ==
    run.stage = "done" =>
        /\ Result.confidence.den > 0
        /\ 0 <= Result.confidence.num
        /\ Result.confidence.num <= Result.confidence.den

\* A typed form analysed to the end, with a field read and its confidence.
C1_Witness ==
    /\ run.stage = "done"
    /\ run.formType = "Schedule C"
    /\ "netProfit" \in DOMAIN Result.extractedFields
    /\ Result.confidence = [num |-> 8, den |-> 10]

\* C3: for the clean, digitally generated Schedule C (net profit 69,297, meals
\* 4,250, every other itemized field 0) the result has net profit 69297.0, a
\* confidence of at least 0.9 for it, and validation valid = true.
C3_CleanScheduleC ==
    (run.stage = "done" /\ subject = CleanScheduleC) =>
        /\ run.formType = "Schedule C"
        /\ "netProfit" \in DOMAIN Result.extractedFields
        /\ Result.extractedFields.netProfit = Number(69297, "")
        /\ 10 * Result.confidence.num >= 9 * Result.confidence.den
        /\ "validation" \in DOMAIN Result
        /\ Result.validation.valid

\* C24: form-type detection recognises S-corporation returns: for a text that
\* contains 'FORM 1120S' and none of the 1040 or 1065 signatures detectFormType
\* returns '1120S'; the result is always a key of supportedFormTypes or 'Unknown'.
C24_DetectsSCorporation ==
    run.stage \in {"typed", "done"} =>
        LET upperText == toUpperCase(run.rawText)
            has(p) == includes(upperText, p)
        IN  /\ run.formType \in supportedFormTypes \cup {"Unknown"}
            /\ (/\ has("FORM 1120S")
                /\ ~has("FORM 1040")
                /\ ~has("INDIVIDUAL INCOME TAX RETURN")
                /\ ~has("FORM 1065")
                /\ ~has("PARTNERSHIP RETURN")) => run.formType = "1120S"

\* C4: a field of the table whose pattern matches nowhere in the text has no key
\* in the extracted fields, and a key is there only when its pattern matched:
\* absent and present with value 0 differ.
C4_AbsentUnlessMatched ==
    run.stage = "done" =>
        \A k \in 1..Len(patternsOf(run.formType)) :
            LET entry == patternsOf(run.formType)[k]
            IN  entry[1] \in DOMAIN Result.extractedFields
                    <=> Occurs(run.rawText, entry[2])

\* A Schedule C whose line 31 reads 0 and which names no total expenses: net
\* profit is present with value 0, total expenses is absent.
C4_Witness ==
    /\ run.stage = "done"
    /\ run.formType = "Schedule C"
    /\ "netProfit" \in DOMAIN Result.extractedFields
    /\ Result.extractedFields.netProfit = Number(0, "")
    /\ "totalExpenses" \notin DOMAIN Result.extractedFields
    /\ ~Occurs(run.rawText, patternsScheduleC[5][2])

\* C10: every field name in a document's extracted fields is a field name of the
\* pattern table of the form type used for the document.
C10_FieldsWithinTemplate ==
    run.stage = "done" =>
        DOMAIN Result.extractedFields \subseteq TemplateFields(run.formType)

\* A Schedule C with fields read, and text that the table of another form
\* would have matched as well.
C10_Witness ==
    /\ run.stage = "done"
    /\ run.formType = "Schedule C"
    /\ DOMAIN Result.extractedFields # {}
    /\ DOMAIN extractByPatterns(run.rawText, patterns1040) # {}

---------------------------------------------------------------------------
(* Properties of the handlers, checked under Spec.                         *)

\* An entry written by processPDFInBrowser (the desktop shell stores whatever
\* its main process returned).
IsBrowserEntry(e) == "rawText" \in DOMAIN e

\* The notifications of a type that the latest handler call showed for a file.
Shown(type, name) ==
    {i \in 1..Len(notifications) :
        notifications[i].type = type /\ notifications[i].file = name}

\* The file was handed to processPDFFile by the latest handler call.
Processed(name) == Shown("info", name) # {}

C5_UnrecognizedAborts ==
    \A name \in FileNames :
        (Processed(name) /\ ~electron /\ analysis[subject].formType = "Unknown")
            => /\ name \notin DOMAIN extractedData
               /\ Shown("success", name) = {}
               /\ Shown("error", name) # {}

\* The reports that name an encrypted document: the message of PDF.js, and the
\* error kind of the desktop shell's main process.
EncryptionErrors == {"No password given", "EncryptedDocument"}

C7_OneErrorPerFailedFile ==
    \A name \in FileNames :
        (Processed(name) /\ Shown("success", name) = {})
            => Cardinality(Shown("error", name)) = 1

\* C8: a file whose type is not application/pdf is never passed to processing,
\* and a drop or selection without any PDF shows one warning and processes
\* nothing. Stated of every call of a handler.
C8_OnlyPdfProcessed ==
    [][clock' = clock =>
        /\ \A i \in 1..Len(notifications') :
                notifications'[i].type # "warning" =>
                    \A f \in {lastFiles'[j] : j \in {k \in 1..Len(lastFiles') :
                                    lastFiles'[k].name = notifications'[i].file}} :
                        f.type = "application/pdf"
        /\ \A j \in 1..Len(lastFiles') :
                lastFiles'[j].type # "application/pdf" =>
                    lastFiles'[j].name \notin DOMAIN extractedData'
        /\ (\A j \in 1..Len(lastFiles') : lastFiles'[j].type # "application/pdf") =>
                /\ Len(notifications') = 1
                /\ notifications'[1].type = "warning"
                /\ extractedData' = extractedData
                /\ pdfjsLoaded' = pdfjsLoaded]_vars

\* An image and a PDF dropped together: the PDF is processed, the image is not.
C8_Witness ==
    /\ Len(lastFiles) = 2
    /\ lastFiles[1].name = "scan.png"
    /\ lastFiles[2].name = "a.pdf"
    /\ Processed("a.pdf")
    /\ ~Processed("scan.png")
    /\ DOMAIN extractedData = {"a.pdf"}

---------------------------------------------------------------------------
(* Properties of the Document state machine, checked under SpecDoc.        *)

\* The position of a state in the order of the pipeline.
Rank(state) ==
    CASE state = "Received" -> 1
      [] state = "Normalized" -> 2
      [] state = "Preprocessed" -> 3
      [] state = "LayoutDetected" -> 4
      [] state = "StructureExtracted" -> 5
      [] state = "Recognized" -> 6
      [] state = "FieldsMapped" -> 7
      [] state = "Validated" -> 8
      [] state = "NeedsReview" -> 9
      [] state = "Reviewed" -> 10
      [] state = "Completed" -> 11
      [] state = "Failed" -> 12

---------------------------------------------------------------------------
(* The Validator/Reconciler of the extraction pipeline (spec.md 4.7); its   *)
(* code is not among the sources.                                          *)

\* The rounding tolerance of cross-footing, in whole dollars.
Tolerance == 1

\* Amounts a mapped field can carry, in whole dollars.
SubAmounts == {0, 1, 4250, 65047}

StatedTotals == {65047, 69297, 69298, 69299}

\* Tax-ID-shaped strings: well formed, without separator, too short.
TaxIds == {"12-3456789", "123456789", "12-34567"}

WageAmounts == {-100, 52000}

\* The mapped fields the Validator receives.
MappedFields ==
    [subItems : SeqsUpTo(SubAmounts, MaxSubItems), total : StatedTotals,
     taxId : TaxIds, wages : WageAmounts]

RECURSIVE Sum(_)
Sum(q) == IF q = << >> THEN 0 ELSE q[1] + Sum(Tail(q))

Abs(x) == IF x < 0 THEN -x ELSE x

\* Digit count and separator pattern of an employer identification number.
WellFormedTaxId(id) ==
    /\ Len(id) = 10
    /\ Char(id, 3) = "-"
    /\ \A i \in (1..10) \ {3} : Char(id, i) \in Digits

\* Everything but the Validator at rest.
validatorFrame ==
    << subject, analysis, run, electron, parserVars, clock, docState,
       ocr, preprocessor, sw, calc, themeSwitcher, app,
       dropZones, loan >>

\* Rule class (a) recording a mismatch as a warning.
crossFoot_warning ==
    /\ validator.pc = "crossFoot"
    /\ validator' =
        [validator EXCEPT
            !.pc = "identifier",
            !.warnings =
                IF Abs(Sum(validator.fields.subItems) - validator.fields.total) > Tolerance
                THEN @ \cup {"cross_footing"} ELSE @]
    /\ UNCHANGED validatorFrame

\* Rule class (a): the itemized sub-fields must sum to the stated total within
\* the tolerance; a mismatch beyond it is a hard error.
crossFoot ==
    /\ validator.pc = "crossFoot"
    /\ validator' =
        [validator EXCEPT
            !.pc = "identifier",
            !.errors =
                IF Abs(Sum(validator.fields.subItems) - validator.fields.total) > Tolerance
                THEN @ \cup {"cross_footing"} ELSE @]
    /\ UNCHANGED validatorFrame

\* Rule class (b): the structure of identifiers.
checkIdentifier ==
    /\ validator.pc = "identifier"
    /\ validator' =
        [validator EXCEPT
            !.pc = "range",
            !.errors = IF WellFormedTaxId(validator.fields.taxId) THEN @
                       ELSE @ \cup {"identifier"}]
    /\ UNCHANGED validatorFrame

\* Rule class (c): values outside plausible bounds are warnings.
checkRange ==
    /\ validator.pc = "range"
    /\ validator' =
        [validator EXCEPT
            !.pc = "report",
            !.warnings = IF validator.fields.wages < 0 THEN @ \cup {"range"} ELSE @]
    /\ UNCHANGED validatorFrame

\* A report that gives up on hard errors instead of returning the data.
report_aborting ==
    /\ validator.pc = "report"
    /\ validator' =
        IF validator.errors # {} THEN [validator EXCEPT !.pc = "aborted"]
        ELSE [validator EXCEPT
                !.pc = "done",
                !.output =
                    [extracted_data |-> validator.fields,
                     validation_results |->
                        [valid |-> validator.warnings = {}, errors |-> validator.errors,
                         warnings |-> validator.warnings]]]
    /\ UNCHANGED validatorFrame

\* The single ValidationReport, returned with the best-effort data.
report ==
    /\ validator.pc = "report"
    /\ validator' =
        [validator EXCEPT
            !.pc = "done",
            !.output =
                [extracted_data |-> validator.fields,
                 validation_results |->
                    [valid |-> validator.errors = {}, errors |-> validator.errors,
                     warnings |-> validator.warnings]]]
    /\ UNCHANGED validatorFrame

InitValidate ==
    /\ ParserIdle
    /\ \E fields \in MappedFields :
            validator = [pc |-> "crossFoot", fields |-> fields, errors |-> {},
                         warnings |-> {}, output |-> << >>]
    /\ ocr = Off
    /\ preprocessor = Off
    /\ sw = Off
    /\ calc = Off
    /\ themeSwitcher = Off
    /\ app = Off
    /\ dropZones = Off
    /\ loan = Off

NextValidate == crossFoot \/ checkIdentifier \/ checkRange \/ report

SpecValidate == InitValidate /\ [][NextValidate]_vars

\* C11: validation never aborts a run: valid is false exactly when at least one
\* hard error was recorded, a Document with warnings only is reported valid
\* with the warnings attached, and in both cases the extracted data is returned.
C11_ValidationReport ==
    /\ validator.pc \in {"crossFoot", "identifier", "range", "report", "done"}
    /\ validator.pc = "done" =>
        LET results == validator.output.validation_results
        IN  /\ results.valid = FALSE <=> validator.errors # {}
            /\ (validator.errors = {} /\ validator.warnings # {}) =>
                    (results.valid /\ results.warnings = validator.warnings)
            /\ results.errors = validator.errors
            /\ validator.output.extracted_data = validator.fields

\* Negative wages and nothing else wrong: valid, with the range warning.
C11_Witness ==
    /\ validator.pc = "done"
    /\ validator.fields.wages < 0
    /\ validator.errors = {}
    /\ validator.output.validation_results.valid
    /\ validator.output.validation_results.warnings = {"range"}

\* A hard error: not valid, the data still returned.
C11_WitnessInvalid ==
    /\ validator.pc = "done"
    /\ validator.errors # {}
    /\ ~validator.output.validation_results.valid
    /\ validator.output.extracted_data = validator.fields

\* C12: cross-footing: sub-fields summing to a value that differs from the
\* stated total by more than the tolerance (65,047 against 69,297) give a hard
\* error; sub-fields summing exactly to the stated total give no cross-footing
\* error.
C12_CrossFooting ==
    validator.pc \in {"identifier", "range", "report", "done"} =>
        LET stated == validator.fields.total
            summed == Sum(validator.fields.subItems)
        IN  /\ (summed - stated > Tolerance \/ stated - summed > Tolerance)
                    => "cross_footing" \in validator.errors
            /\ summed = stated => "cross_footing" \notin validator.errors
            /\ (summed = 65047 /\ stated = 69297) => "cross_footing" \in validator.errors

\* 65,047 against 69,297: the hard error is recorded and the report is not valid.
C12_Witness ==
    /\ validator.pc = "done"
    /\ Sum(validator.fields.subItems) = 65047
    /\ validator.fields.total = 69297
    /\ "cross_footing" \in validator.errors
    /\ ~validator.output.validation_results.valid

\* 65,047 and 4,250 against 69,297: no cross-footing error.
C12_WitnessExact ==
    /\ validator.pc = "done"
    /\ validator.fields.subItems = << 65047, 4250 >>
    /\ validator.fields.total = 69297
    /\ "cross_footing" \notin validator.errors

---------------------------------------------------------------------------
(* The OCR ensemble of the extraction pipeline (spec.md 4.5); its code is   *)
(* not among the sources.                                                  *)

\* Confidences an engine can report, in tenths.
Confidences == {3, 5, 8}

\* The escalation threshold, in tenths.
EscalationThreshold == 5

\* A Region before recognition.
PendingRegion == [stage |-> "pending", confidence |-> 0, noisy |-> FALSE, secondary |-> 0]

\* Everything but the OCR ensemble at rest.
ocrFrame ==
    << subject, analysis, run, electron, parserVars, clock, docState,
       validator, preprocessor, sw, calc, themeSwitcher, app,
       dropZones, loan >>

\* The primary, locally hosted engine runs on every Region and reports a
\* confidence; the word-level text may resemble unreadable noise.
runPrimary(r) ==
    /\ ocr.regions[r].stage = "pending"
    /\ \E c \in Confidences, noisy \in BOOLEAN :
            ocr' = [ocr EXCEPT !.regions[r] =
                        [stage |-> "primary", confidence |-> c, noisy |-> noisy,
                         secondary |-> 0]]
    /\ UNCHANGED ocrFrame

\* Escalation of every recognised Region, whatever the primary engine reported.
escalate_always(r) ==
    /\ ocr.regions[r].stage \in {"primary", "escalated"}
    /\ ocr.regions[r].secondary < MaxSecondary
    /\ ocr' = [ocr EXCEPT !.regions[r].stage = "escalated",
                          !.regions[r].secondary = @ + 1]
    /\ UNCHANGED ocrFrame

\* A Region whose confidence is below the threshold, or whose text resembles
\* noise, is escalated, and only that Region, to one more secondary provider.
escalate(r) ==
    /\ ocr.regions[r].stage \in {"primary", "escalated"}
    /\ ocr.regions[r].confidence < EscalationThreshold \/ ocr.regions[r].noisy
    /\ ocr.regions[r].secondary < MaxSecondary
    /\ ocr' = [ocr EXCEPT !.regions[r].stage = "escalated",
                          !.regions[r].secondary = @ + 1]
    /\ UNCHANGED ocrFrame

\* The results for the Region are combined into one.
combine(r) ==
    /\ ocr.regions[r].stage \in {"primary", "escalated"}
    /\ ocr' = [ocr EXCEPT !.regions[r].stage = "combined"]
    /\ UNCHANGED ocrFrame

InitOcr ==
    /\ ParserIdle
    /\ ocr = [pc |-> "recognise", regions |-> [r \in 1..MaxRegions |-> PendingRegion]]
    /\ validator = Off
    /\ preprocessor = Off
    /\ sw = Off
    /\ calc = Off
    /\ themeSwitcher = Off
    /\ app = Off
    /\ dropZones = Off
    /\ loan = Off

NextOcr == \E r \in 1..MaxRegions : runPrimary(r) \/ escalate(r) \/ combine(r)

SpecOcr == InitOcr /\ [][NextOcr]_vars

---------------------------------------------------------------------------
(* The image preprocessor of the extraction pipeline (spec.md 4.2): the     *)
(* confidence probe and the rotation retry; its code is not among the      *)
(* sources.                                                                *)

\* The cardinal rotations, in degrees.
Rotations == {0, 90, 180, 270}

\* Confidences the probe can report, in tenths.
ProbeConfidences == {2, 5, 8}

\* The floor under which the other rotations are tried, in tenths.
ProbeFloor == 5

\* The pages the preprocessor receives: a raster page with the confidence the
\* probe reports at each rotation, or a page that came from embedded text.
Pages ==
    {[kind |-> "raster", probe |-> f] : f \in [Rotations -> ProbeConfidences]}
        \cup {[kind |-> "embedded", probe |-> [r \in Rotations |-> 8]]}

\* Everything but the preprocessor at rest.
preprocessorFrame ==
    << subject, analysis, run, electron, parserVars, clock, docState,
       validator, ocr, sw, calc, themeSwitcher, app,
       dropZones, loan >>

\* A page that came from embedded text skips the stage.
skipEmbedded ==
    /\ preprocessor.pc = "probe"
    /\ preprocessor.page.kind = "embedded"
    /\ preprocessor' = [preprocessor EXCEPT !.pc = "done"]
    /\ UNCHANGED preprocessorFrame

\* Deskew, denoise, binarize, then the confidence probe on the result; below
\* the floor the other rotations are tried.
probeInitial ==
    /\ preprocessor.pc = "probe"
    /\ preprocessor.page.kind = "raster"
    /\ preprocessor' =
        [preprocessor EXCEPT
            !.tried = {0},
            !.pc = IF preprocessor.page.probe[0] < ProbeFloor THEN "retry" ELSE "select"]
    /\ UNCHANGED preprocessorFrame

\* The probe at the next of the three other rotations.
retryRotation ==
    /\ preprocessor.pc = "retry"
    /\ LET next == Min(Rotations \ preprocessor.tried)
       IN  preprocessor' =
                [preprocessor EXCEPT
                    !.tried = @ \cup {next},
                    !.pc = IF preprocessor.tried \cup {next} = Rotations
                           THEN "select" ELSE "retry"]
    /\ UNCHANGED preprocessorFrame

\* The selection keeping the last maximal rotation: a scan that replaces the
\* best so far on >= instead of >.
selectRotation_lastMax ==
    /\ preprocessor.pc = "select"
    /\ LET best == {r \in preprocessor.tried :
                        \A t \in preprocessor.tried :
                            preprocessor.page.probe[r] >= preprocessor.page.probe[t]}
       IN  preprocessor' =
                [preprocessor EXCEPT
                    !.rotation = CHOOSE r \in best : \A t \in best : t <= r,
                    !.pc = "done"]
    /\ UNCHANGED preprocessorFrame

\* The rotation with the highest probe confidence is kept: the first maximal
\* value in ascending rotation order.
selectRotation ==
    /\ preprocessor.pc = "select"
    /\ LET best == {r \in preprocessor.tried :
                        \A t \in preprocessor.tried :
                            preprocessor.page.probe[r] >= preprocessor.page.probe[t]}
       IN  preprocessor' = [preprocessor EXCEPT !.rotation = Min(best), !.pc = "done"]
    /\ UNCHANGED preprocessorFrame

InitPreprocess ==
    /\ ParserIdle
    /\ \E page \in Pages :
            preprocessor = [pc |-> "probe", page |-> page, tried |-> {}, rotation |-> 0]
    /\ validator = Off
    /\ ocr = Off
    /\ sw = Off
    /\ calc = Off
    /\ themeSwitcher = Off
    /\ app = Off
    /\ dropZones = Off
    /\ loan = Off

NextPreprocess == skipEmbedded \/ probeInitial \/ retryRotation \/ selectRotation

SpecPreprocess == InitPreprocess /\ [][NextPreprocess]_vars

\* C14: the rotation retry selects, among the rotations tried, one whose probe
\* confidence is maximal, and among several maximal ones the first in ascending
\* rotation order; 90, 180 and 270 are tried only when the probe confidence of
\* the initial result is below the floor.
C14_RotationSelected ==
    /\ (preprocessor.tried \ {0} # {}) => preprocessor.page.probe[0] < ProbeFloor
    /\ (preprocessor.pc = "done" /\ preprocessor.page.kind = "raster") =>
        /\ preprocessor.rotation \in preprocessor.tried
        /\ preprocessor.tried \subseteq Rotations
        /\ \A t \in preprocessor.tried :
            /\ preprocessor.page.probe[t] <= preprocessor.page.probe[preprocessor.rotation]
            /\ preprocessor.page.probe[t] = preprocessor.page.probe[preprocessor.rotation]
                    => preprocessor.rotation <= t

\* Upright probe below the floor, 90 and 270 tied for the maximum: 90 is kept.
C14_Witness ==
    /\ preprocessor.pc = "done"
    /\ preprocessor.page.kind = "raster"
    /\ preprocessor.page.probe = (0 :> 2 @@ 90 :> 8 @@ 180 :> 5 @@ 270 :> 8)
    /\ preprocessor.tried = Rotations
    /\ preprocessor.rotation = 90

---------------------------------------------------------------------------
(* The service worker, sw.js: its caches, the server it fetches from, and   *)
(* the events the browser sends it.                                        *)

CACHE_NAME == "msfg-loan-tools-v1.0.0"

urlsToCache ==
    << "/", "/LoanToolsHub.html", "/LLPMTool.html", "/BuydownCalculator.html",
       "/APRCalculator.html", "/IncomeCalculatorQuestionnaire.html",
       "/theme-demo.html", "/llpm.js", "/buydown.js", "/llpm-data.js",
       "/manifest.json", "/theme-switcher.js" >>

Precached == {urlsToCache[i] : i \in 1..Len(urlsToCache)}

\* What pages of the site request: the precached files and one that is not.
Urls == Precached \cup {"/assets/icon-192.png"}

\* A cache of the origin left by an earlier release of the worker.
OldCache ==
    [name |-> "msfg-loan-tools-v0.9.0",
     entries |-> [url \in {"/", "/LoanToolsHub.html"} |-> 0]]

\* caches.match(request): the entry of the first cache, in creation order, that
\* holds the URL; << >> when none does.
cachesMatch(caches, url) ==
    LET holding == {i \in 1..Len(caches) : url \in DOMAIN caches[i].entries}
    IN  IF holding = {} THEN << >>
        ELSE << caches[Min(holding)].entries[url] >>

\* caches.open(name): the cache of that name, created last when missing.
cachesOpen(caches, name) ==
    IF \E i \in 1..Len(caches) : caches[i].name = name THEN caches
    ELSE Append(caches, [name |-> name, entries |-> << >>])

\* cache.addAll(urls), all requests answered: every response is put under its
\* URL, replacing an entry already there.
addAll(caches, name, urls, server) ==
    [i \in 1..Len(caches) |->
        IF caches[i].name = name
        THEN [caches[i] EXCEPT
                !.entries = [url \in DOMAIN @ \cup urls |->
                                IF url \in urls THEN server[url] ELSE @[url]]]
        ELSE caches[i]]

\* No fetch event answered yet.
NoFetch == [url |-> "", source |-> "none", version |-> 0, network |-> FALSE]

\* Everything but the service worker at rest.
swFrame ==
    << subject, analysis, run, electron, parserVars, clock, docState,
       validator, ocr, preprocessor, calc, themeSwitcher, app,
       dropZones, loan >>

\* navigator.serviceWorker.register: the browser starts a worker from sw.js.
register ==
    /\ sw.worker \in {"none", "redundant"}
    /\ sw' = [sw EXCEPT !.worker = "installing"]
    /\ UNCHANGED swFrame

\* The install handler: caches.open(CACHE_NAME), then cache.addAll(urlsToCache).
\* addAll stores all responses or, when a request fails, none; the promise
\* given to waitUntil then rejects and the worker is discarded.
install ==
    /\ sw.worker = "installing"
    /\ LET opened == cachesOpen(sw.caches, CACHE_NAME)
       IN  sw' = IF sw.online
                 THEN [sw EXCEPT !.caches = addAll(opened, CACHE_NAME, Precached, sw.server),
                                 !.worker = "installed"]
                 ELSE [sw EXCEPT !.caches = opened, !.worker = "redundant"]
    /\ UNCHANGED swFrame

\* The names that caches.keys() resolves to.
cacheNames(caches) == {caches[i].name : i \in 1..Len(caches)}

\* The activate handler with the comparison inverted: cacheName === CACHE_NAME.
activate_inverted ==
    /\ sw.worker = "installed"
    /\ sw' = [sw EXCEPT !.caches = SelectSeq(@, LAMBDA c : c.name # CACHE_NAME),
                        !.deleted = {name \in cacheNames(sw.caches) : name = CACHE_NAME},
                        !.worker = "activated"]
    /\ UNCHANGED swFrame

\* The activate handler without its caches.delete call.
activate_keepAll ==
    /\ sw.worker = "installed"
    /\ sw' = [sw EXCEPT !.worker = "activated"]
    /\ UNCHANGED swFrame

\* The activate handler: every cache whose name is not CACHE_NAME is deleted;
\* sw.deleted keeps the names given to caches.delete.
activate ==
    /\ sw.worker = "installed"
    /\ sw' = [sw EXCEPT !.caches = SelectSeq(@, LAMBDA c : c.name = CACHE_NAME),
                        !.deleted = {name \in cacheNames(sw.caches) : name # CACHE_NAME},
                        !.worker = "activated"]
    /\ UNCHANGED swFrame

\* The fetch handler of the active worker: the cached response when
\* caches.match finds one, else fetch(event.request) over the network.
fetch(url) ==
    /\ sw.worker = "activated"
    /\ LET response == cachesMatch(sw.caches, url)
       IN  sw' = [sw EXCEPT !.last =
                    IF response # << >>
                    THEN [url |-> url, source |-> "cache", version |-> response[1],
                          network |-> FALSE]
                    ELSE IF sw.online
                    THEN [url |-> url, source |-> "network", version |-> sw.server[url],
                          network |-> TRUE]
                    ELSE [url |-> url, source |-> "error", version |-> 0,
                          network |-> TRUE]]
    /\ UNCHANGED swFrame

\* A file is changed on the server; sw.js itself stays as it is.
deploy(url) ==
    /\ sw.deploys < MaxDeploys
    /\ sw' = [sw EXCEPT !.server[url] = @ + 1, !.deploys = @ + 1]
    /\ UNCHANGED swFrame

\* The device loses or regains its connection.
setOnline(online) ==
    /\ sw.online # online
    /\ sw' = [sw EXCEPT !.online = online]
    /\ UNCHANGED swFrame

InitSw ==
    /\ ParserIdle
    /\ \E caches \in {<< >>, << OldCache >>} :
            sw = [pc |-> "on", worker |-> "none", online |-> TRUE,
                  server |-> [url \in Urls |-> 1], caches |-> caches,
                  deploys |-> 0, deleted |-> {}, last |-> NoFetch]
    /\ validator = Off
    /\ ocr = Off
    /\ preprocessor = Off
    /\ calc = Off
    /\ themeSwitcher = Off
    /\ app = Off
    /\ dropZones = Off
    /\ loan = Off

NextSw ==
    \/ register
    \/ install
    \/ activate
    \/ \E url \in Urls : fetch(url)
    \/ \E url \in Precached : deploy(url)
    \/ \E online \in BOOLEAN : setOnline(online)

SpecSw == InitSw /\ [][NextSw]_vars

\* The browser delivers the events it has for the worker, pages keep requesting
\* every file, and a lost connection comes back.
SpecSwFair ==
    /\ SpecSw
    /\ WF_vars(register)
    /\ WF_vars(install)
    /\ WF_vars(activate)
    /\ WF_vars(setOnline(TRUE))
    /\ \A url \in Urls : WF_vars(fetch(url))

\* C15: offline support: once the install step of the worker has completed, a
\* fetch for any URL of the precache list is answered from the cache and causes
\* no network request; only a request without a cache match goes to the network.
C15_PrecachedFromCache ==
    /\ sw.last.url \in Precached =>
        /\ sw.worker \in {"installed", "activated"}
        /\ sw.last.source = "cache"
        /\ ~sw.last.network
    /\ sw.last.network =>
        \A i \in 1..Len(sw.caches) : sw.last.url \notin DOMAIN sw.caches[i].entries

\* Offline, after a cache of an earlier release was deleted: the calculator page
\* comes from the cache.
C15_Witness ==
    /\ ~sw.online
    /\ sw.worker = "activated"
    /\ Len(sw.caches) = 1
    /\ sw.last.url = "/BuydownCalculator.html"
    /\ sw.last.source = "cache"

\* C16: automatic updates: after a precached file changed on the server, a
\* client with the service worker installed eventually serves the new version
\* of that file.
C16_AutomaticUpdates ==
    \A url \in Precached :
        (/\ sw.worker = "activated"
         /\ cachesMatch(sw.caches, url) # << >>
         /\ cachesMatch(sw.caches, url)[1] # sw.server[url])
            ~> (sw.last.url = url /\ sw.last.version = sw.server[url])

\* C21: old caches are cleaned up on activation: after the activate step the
\* cache named CACHE_NAME is the only cache left; every cache of another name
\* has been deleted and the current cache is never deleted.
C21_OnlyCurrentCacheLeft ==
    /\ sw.worker = "activated" =>
            /\ Len(sw.caches) = 1
            /\ sw.caches[1].name = CACHE_NAME
            /\ DOMAIN sw.caches[1].entries = Precached
    /\ CACHE_NAME \notin sw.deleted

\* The cache of the earlier release was there and the activation deleted it.
C21_Witness ==
    /\ sw.worker = "activated"
    /\ sw.deleted = {OldCache.name}
    /\ Len(sw.caches) = 1

---------------------------------------------------------------------------
(* The buydown calculator page (buydown.js): the form, the state read from  *)
(* it, and the state carried by the query string of a share link.           *)

\* String(n) of a JavaScript number.
NumberToString(n) ==
    IF n.nan THEN "NaN"
    ELSE ToString(n.whole) \o (IF n.frac = "" THEN "" ELSE "." \o n.frac)

\* parseInt on an unsigned decimal: leading white space is skipped, the longest
\* prefix of digits is read, NaN when there is none.
parseInt(s) ==
    LET a == Span(s, 1, Space)
        b == Span(s, a, Digits)
    IN  IF b = a THEN NaN ELSE Number(NatOf(SubSeq(s, a, b - 1), b - a), "")

\* n || d on numbers: NaN and 0 are falsy.
NumberOr(n, d) == IF n.nan \/ (n.whole = 0 /\ n.frac = "") THEN d ELSE n

\* s || d on strings: the empty string is falsy.
StringOr(s, d) == IF s = "" THEN d ELSE s

RECURSIVE Find(_, _, _)
\* The position of the first c in s at or after i, Len(s) + 1 when there is none.
Find(s, i, c) ==
    IF i > Len(s) \/ Char(s, i) = c THEN i ELSE Find(s, i + 1, c)

RECURSIVE paramsToString(_)
\* URLSearchParams.toString on a list of <<name, value>> pairs. The names and
\* values of the model hold only letters, digits, "-" and ".", which the
\* serializer leaves as they are.
paramsToString(params) ==
    IF params = << >> THEN ""
    ELSE params[1][1] \o "=" \o params[1][2]
         \o (IF Len(params) > 1 THEN "&" ELSE "") \o paramsToString(Tail(params))

RECURSIVE parsePairs(_)
parsePairs(q) ==
    IF q = "" THEN << >>
    ELSE LET e == Find(q, 1, "&")
             piece == SubSeq(q, 1, e - 1)
             eq == Find(piece, 1, "=")
             rest == parsePairs(SubSeq(q, e + 1, Len(q)))
         IN  IF piece = "" THEN rest
             ELSE << << SubSeq(piece, 1, eq - 1), SubSeq(piece, eq + 1, Len(piece)) >> >>
                  \o rest

\* new URLSearchParams(queryString): a leading "?" is dropped.
URLSearchParams(queryString) ==
    IF queryString # "" /\ Char(queryString, 1) = "?"
    THEN parsePairs(SubSeq(queryString, 2, Len(queryString)))
    ELSE parsePairs(queryString)

paramsHas(params, name) == \E i \in 1..Len(params) : params[i][1] = name

\* params.get(name): the value of the first pair of that name.
paramsGet(params, name) ==
    params[Min({i \in 1..Len(params) : params[i][1] = name})][2]

\* The initial value of currentState.
DefaultState ==
    [loanAmount |-> Number(0, ""), noteRate |-> Number(0, ""),
     loanTerm |-> Number(30, ""), buydownType |-> "3-2-1",
     includeTaxes |-> FALSE, includeInsurance |-> FALSE,
     propertyTaxes |-> Number(0, ""), insurance |-> Number(0, ""),
     hoa |-> Number(0, "")]

readNumber(value) ==
    LET val == parseFloat(value) IN IF val.nan THEN Number(0, "") ELSE val

\* The state read from the form: the value of each control and the 'active'
\* class of the two toggles.
getCurrentState(form) ==
    [loanAmount |-> readNumber(form.loanAmount),
     noteRate |-> readNumber(form.noteRate),
     loanTerm |-> parseInt(form.loanTerm),
     buydownType |-> form.buydownType,
     includeTaxes |-> form.includeTaxes,
     includeInsurance |-> form.includeInsurance,
     propertyTaxes |-> readNumber(form.propertyTaxes),
     insurance |-> readNumber(form.insurance),
     hoa |-> readNumber(form.hoa)]

\* Assigning a number to the value of a control stores its string.
applyState(state) ==
    [loanAmount |-> NumberToString(state.loanAmount),
     noteRate |-> NumberToString(state.noteRate),
     loanTerm |-> NumberToString(state.loanTerm),
     buydownType |-> state.buydownType,
     includeTaxes |-> state.includeTaxes,
     includeInsurance |-> state.includeInsurance,
     propertyTaxes |-> NumberToString(state.propertyTaxes),
     insurance |-> NumberToString(state.insurance),
     hoa |-> NumberToString(state.hoa)]

serializeState(state) ==
    paramsToString(<<
        << "la", NumberToString(state.loanAmount) >>,
        << "nr", NumberToString(state.noteRate) >>,
        << "lt", NumberToString(state.loanTerm) >>,
        << "bt", state.buydownType >>,
        << "it", IF state.includeTaxes THEN "1" ELSE "0" >>,
        << "ii", IF state.includeInsurance THEN "1" ELSE "0" >>,
        << "pt", NumberToString(state.propertyTaxes) >>,
        << "ins", NumberToString(state.insurance) >>,
        << "hoa", NumberToString(state.hoa) >> >>)

\* deserializeState, starting from a copy of currentState.
deserializeState(queryString, current) ==
    LET params == URLSearchParams(queryString)
        number(name, old, default) ==
            IF paramsHas(params, name)
            THEN NumberOr(parseFloat(paramsGet(params, name)), default) ELSE old
        flag(name, old) ==
            IF paramsHas(params, name) THEN paramsGet(params, name) = "1" ELSE old
    IN  [loanAmount |-> number("la", current.loanAmount, Number(0, "")),
         noteRate |-> number("nr", current.noteRate, Number(0, "")),
         loanTerm |-> IF paramsHas(params, "lt")
                      THEN NumberOr(parseInt(paramsGet(params, "lt")), Number(30, ""))
                      ELSE current.loanTerm,
         buydownType |-> IF paramsHas(params, "bt")
                         THEN StringOr(paramsGet(params, "bt"), "3-2-1")
                         ELSE current.buydownType,
         includeTaxes |-> flag("it", current.includeTaxes),
         includeInsurance |-> flag("ii", current.includeInsurance),
         propertyTaxes |-> number("pt", current.propertyTaxes, Number(0, "")),
         insurance |-> number("ins", current.insurance, Number(0, "")),
         hoa |-> number("hoa", current.hoa, Number(0, ""))]

\* What a user enters in the controls of the form; the empty string is a
\* control that was cleared. The property taxes, the insurance and the HOA dues
\* are read and written by the same code as the loan amount and stay as the
\* page loaded them.
Controls ==
    [loanAmount |-> {"", "250000.50"},
     noteRate |-> {"6.5"},
     loanTerm |-> {"", "0", "15"},
     buydownType |-> {"2-1"}]

Toggles == {"includeTaxes", "includeInsurance"}

NoLink == "none"

\* The #warning element: hidden, or showing a message.
Hidden == [hidden |-> TRUE, text |-> ""]

showWarning(message) == [hidden |-> FALSE, text |-> message]

\* hideWarning adds the class 'hidden' and leaves the text.
hideWarning(warning) == [warning EXCEPT !.hidden = TRUE]

IsZero(n) == n.whole = 0 /\ n.frac = ""

\* validateInputs: the warning it shows for a state, Hidden when it shows none
\* (it returns true). !x is true of 0 and NaN; the model's numbers are not
\* negative.
validateInputs(state) ==
    IF state.loanAmount.nan \/ IsZero(state.loanAmount)
    THEN showWarning("Loan Amount must be greater than 0")
    ELSE IF state.noteRate.nan \/ IsZero(state.noteRate)
    THEN showWarning("Note Rate must be greater than 0")
    ELSE IF state.noteRate.whole > 20 \/ (state.noteRate.whole = 20 /\ state.noteRate.frac # "")
    THEN showWarning("Note Rate seems unusually high")
    ELSE Hidden

calcFrame ==
    << subject, analysis, run, electron, parserVars, clock, docState,
       validator, ocr, preprocessor, sw, themeSwitcher, app,
       dropZones, loan >>

\* updateCalculations without its updateURL call.
updateCalculations_noURL(form) ==
    LET state == getCurrentState(form)
    IN  calc' = [calc EXCEPT !.form = form, !.currentState = state,
                             !.warning = hideWarning(@),
                             !.opened = FALSE]

\* updateCalculations, as far as the state goes: currentState is read from the
\* form and updateURL puts its query string in the address. calc.opened marks
\* a page that shows a share link as it was opened; a change by the user ends that.
updateCalculations(form) ==
    LET state == getCurrentState(form)
    IN  calc' = [calc EXCEPT !.form = form, !.currentState = state,
                             !.search = "?" \o serializeState(state),
                             !.warning = hideWarning(@),
                             !.opened = FALSE]

\* The DOMContentLoaded handler: loadFromURL applies the state of the query
\* string to the form, then the calculations are updated.
DOMContentLoaded ==
    /\ calc.pc = "loading"
    /\ LET state == deserializeState(calc.search, calc.currentState)
           form == applyState(state)
           current == getCurrentState(form)
       IN  calc' = [calc EXCEPT !.pc = "ready", !.form = form,
                                !.currentState = current,
                                !.search = "?" \o serializeState(current),
                                !.warning = hideWarning(@)]
    /\ UNCHANGED << calcFrame >>

\* The 'input' or 'change' listener of a control, after the user changed it.
input(control, value) ==
    /\ calc.pc = "ready"
    /\ calc.form[control] # value
    /\ updateCalculations([calc.form EXCEPT ![control] = value])
    /\ UNCHANGED << calcFrame >>

\* The 'click' listener of a toggle.
click(toggle) ==
    /\ calc.pc = "ready"
    /\ updateCalculations([calc.form EXCEPT ![toggle] = ~@])
    /\ UNCHANGED << calcFrame >>

\* The Share button: the link of currentState goes to the clipboard.
copyShareLink ==
    /\ calc.pc = "ready"
    /\ calc' = [calc EXCEPT !.clipboard = "?" \o serializeState(calc.currentState),
                            !.shared = calc.currentState]
    /\ UNCHANGED << calcFrame >>

\* The copied link is opened: the page is loaded anew with the link's query.
openShareLink ==
    /\ calc.pc = "ready"
    /\ calc.clipboard # NoLink
    /\ calc' = [calc EXCEPT !.pc = "loading", !.search = calc.clipboard,
                            !.form = applyState(DefaultState),
                            !.currentState = DefaultState, !.warning = Hidden,
                            !.opened = TRUE]
    /\ UNCHANGED << calcFrame >>

InitCalc ==
    /\ ParserIdle
    /\ calc = [pc |-> "loading", search |-> "", form |-> applyState(DefaultState),
               currentState |-> DefaultState, warning |-> Hidden,
               clipboard |-> NoLink,
               shared |-> DefaultState, opened |-> FALSE]
    /\ validator = Off
    /\ ocr = Off
    /\ preprocessor = Off
    /\ sw = Off
    /\ themeSwitcher = Off
    /\ app = Off
    /\ dropZones = Off
    /\ loan = Off

NextCalc ==
    \/ DOMContentLoaded
    \/ \E control \in DOMAIN Controls : \E value \in Controls[control] :
            input(control, value)
    \/ \E toggle \in Toggles : click(toggle)
    \/ copyShareLink
    \/ openShareLink

SpecCalc == InitCalc /\ [][NextCalc]_vars

\* C17: URL state persistence: for every calculator state s that the form can
\* produce, deserializeState(serializeState(s)) equals s, so a copied share link
\* restores exactly the state it was made from.
C17_ShareLinkRoundTrip ==
    /\ calc.pc = "ready" =>
            deserializeState(serializeState(calc.currentState), DefaultState)
                = calc.currentState
    /\ (calc.pc = "ready" /\ calc.opened) => calc.currentState = calc.shared

\* C23: input validation warnings: whenever the entered loan amount is not
\* greater than 0, or the note rate is not greater than 0, or the note rate is
\* above 20, the calculator shows the corresponding warning after the input is
\* processed; the warning is hidden only when all three checks pass.
C23_WarningShown ==
    calc.pc = "ready" => calc.warning = validateInputs(calc.currentState)

\* C27: after every updateCalculations currentState equals the state read from
\* the form and the query string of the page URL equals
\* serializeState(currentState).
C27_UrlFollowsForm ==
    calc.pc = "ready" =>
        /\ calc.currentState = getCurrentState(calc.form)
        /\ calc.search = "?" \o serializeState(calc.currentState)

\* The user entered an amount and a term and switched the taxes on; the URL
\* carries all of it.
C27_Witness ==
    /\ calc.pc = "ready"
    /\ calc.form.loanAmount = "250000.50"
    /\ calc.form.loanTerm = "15"
    /\ calc.form.includeTaxes
    /\ calc.search = "?la=250000.5&nr=6.5&lt=15&bt=2-1&it=1&ii=0&pt=0&ins=0&hoa=0"

---------------------------------------------------------------------------
(* The theme switcher (class ThemeSwitcher): one instance per open page,    *)
(* all pages of the origin share localStorage.                              *)

\* The keys of this.themes.
ThemeNames == {"dark", "default", "light"}

\* What a caller may pass to setTheme: the themes and a name that is no theme.
ThemeArguments == ThemeNames \cup {"sepia"}

\* The pages of the application open at the same time.
ThemePages == {"hub", "calculator"}

\* localStorage without an 'msfg-theme' item (getItem returns null).
NoTheme == "null"

\* An 'msfg-theme' item that this release did not write: localStorage belongs
\* to the origin and outlives the page.
ForeignTheme == "blue"

Closed == [open |-> FALSE, currentTheme |-> "", applied |-> ""]

themeFrame ==
    << subject, analysis, run, electron, parserVars, clock, docState,
       validator, ocr, preprocessor, sw, calc, app, dropZones, loan >>

getStoredTheme_dark(stored) == "dark"

\* localStorage.getItem('msfg-theme') || 'dark'
getStoredTheme(stored) == IF stored = NoTheme THEN "dark" ELSE stored

\* applyTheme(themeName): the name of the theme whose variables are on the
\* page afterwards. For a name that is no key of this.themes the theme is
\* undefined and reading theme.variables throws: nothing is applied.
applyTheme(applied, themeName) ==
    IF themeName \in ThemeNames THEN themeName ELSE applied

\* A page is loaded: new ThemeSwitcher() reads the stored theme and init()
\* creates the toggle and applies the theme. When applyTheme throws, the
\* toggle is on the page already and its change listener holds the object.
construct(page) ==
    /\ ~themeSwitcher.pages[page].open
    /\ LET currentTheme == getStoredTheme(themeSwitcher.stored)
       IN  themeSwitcher' =
               [themeSwitcher EXCEPT
                    !.pages[page] = [open |-> TRUE, currentTheme |-> currentTheme,
                                     applied |-> applyTheme("", currentTheme)],
                    !.last = [op |-> "construct", page |-> page,
                              theme |-> themeSwitcher.stored]]
    /\ UNCHANGED << themeFrame >>

\* setTheme(themeName) on the switcher of an open page; a name that is no
\* theme changes nothing.
setTheme(page, themeName) ==
    /\ themeSwitcher.pages[page].open
    /\ IF themeName \notin ThemeNames
       THEN themeSwitcher' =
               [themeSwitcher EXCEPT
                    !.last = [op |-> "setTheme", page |-> page, theme |-> themeName]]
       ELSE themeSwitcher' =
               [themeSwitcher EXCEPT
                    !.pages[page].currentTheme = themeName,
                    !.pages[page].applied = applyTheme(@, themeName),
                    !.stored = themeName,
                    !.last = [op |-> "setTheme", page |-> page, theme |-> themeName]]
    /\ UNCHANGED << themeFrame >>

\* The page is closed or left; its ThemeSwitcher is gone.
unload(page) ==
    /\ themeSwitcher.pages[page].open
    /\ themeSwitcher' =
           [themeSwitcher EXCEPT
                !.pages[page] = Closed,
                !.last = [op |-> "unload", page |-> page, theme |-> ""]]
    /\ UNCHANGED << themeFrame >>

InitTheme ==
    /\ ParserIdle
    /\ \E stored \in ThemeNames \cup {NoTheme, ForeignTheme} :
            themeSwitcher = [pc |-> "on", stored |-> stored,
                             pages |-> [page \in ThemePages |-> Closed],
                             last |-> [op |-> "none", page |-> "", theme |-> ""]]
    /\ validator = Off
    /\ ocr = Off
    /\ preprocessor = Off
    /\ sw = Off
    /\ calc = Off
    /\ app = Off
    /\ dropZones = Off
    /\ loan = Off

NextTheme ==
    \/ \E page \in ThemePages : construct(page)
    \/ \E page \in ThemePages : \E themeName \in ThemeArguments :
            setTheme(page, themeName)
    \/ \E page \in ThemePages : unload(page)

SpecTheme == InitTheme /\ [][NextTheme]_vars

\* C18: the theme preference persists: after setTheme(t) with a defined theme t
\* the stored preference equals t and currentTheme equals t; a ThemeSwitcher
\* constructed afterwards, on any page, starts with the stored theme, and with
\* 'dark' when nothing is stored.
C18_ThemePersists ==
    LET last == themeSwitcher.last
    IN  /\ (last.op = "setTheme" /\ last.theme \in ThemeNames) =>
                /\ themeSwitcher.stored = last.theme
                /\ themeSwitcher.pages[last.page].currentTheme = last.theme
        /\ last.op = "construct" =>
                themeSwitcher.pages[last.page].currentTheme =
                    (IF last.theme = NoTheme THEN "dark" ELSE last.theme)

\* The light theme was chosen on one page and the other page, opened after
\* that, starts with it.
C18_Witness ==
    /\ themeSwitcher.last = [op |-> "construct", page |-> "calculator", theme |-> "light"]
    /\ themeSwitcher.pages["hub"].currentTheme = "light"
    /\ themeSwitcher.pages["calculator"].currentTheme = "light"

\* A first visit: nothing is stored and the page starts dark.
C18_WitnessFirstVisit ==
    /\ themeSwitcher.last = [op |-> "construct", page |-> "hub", theme |-> NoTheme]
    /\ themeSwitcher.pages["hub"].currentTheme = "dark"

\* C28: at every point after a ThemeSwitcher is constructed, currentTheme is
\* one of the three defined themes, whatever localStorage 'msfg-theme' held at
\* start-up and whatever names are passed to setTheme, so applyTheme always
\* finds a theme definition.
C28_CurrentThemeDefined ==
    \A page \in ThemePages :
        themeSwitcher.pages[page].open =>
            /\ themeSwitcher.pages[page].currentTheme \in ThemeNames
            /\ themeSwitcher.pages[page].applied = themeSwitcher.pages[page].currentTheme

---------------------------------------------------------------------------
(* The application shell (class LoanToolsApp, app.js) on one page: the      *)
(* listeners it registers, the form data and the calculation history it     *)
(* keeps in localStorage.                                                   *)

\* The history keeps this many calculations.
HistoryLimit == 50

\* The calculations saved in one run of the model.
MaxSaves == 52

\* The half minutes that pass while a page is open.
MaxPeriods == 2

\* What the user types in the page's form field.
FormValues == {"", "250000"}

\* localStorage.getItem of an item that is not there.
NoItem == "null"

\* localStorage without the item 'loanTools_calculations', and with it: the
\* item is the text of a JSON array, kept as the texts of its elements.
NoHistory == [present |-> FALSE, items |-> << >>]

StoredHistory(items) == [present |-> TRUE, items |-> items]

\* The listeners and timers a page can have. A freshly loaded page has the one
\* DOMContentLoaded listener that the script registers.
InitializeListener == << "DOMContentLoaded", "initialize" >>

SetupListener == << "DOMContentLoaded", "setup" >>

KeydownListener == << "keydown", "handleKeyboardShortcuts" >>

UnloadListener == << "beforeunload", "saveCalculations" >>

SubmitListener == << "submit", "saveFormData" >>

AutoSaveInterval == << "interval", "saveFormData" >>

\* JSON.stringify(formData) for the page's form field.
stringifyForm(value) == "{\"loanAmount\":\"" \o value \o "\"}"

\* JSON.parse of that text, then the value of the field.
parseForm(text) == SubSeq(text, Len("{\"loanAmount\":\"") + 1, Len(text) - 2)

\* JSON.stringify of one calculation.
stringifyCalculation(calculation) ==
    "{\"id\":" \o NumberToString(Number(calculation.id, ""))
        \o ",\"page\":\"" \o calculation.page \o "\"}"

\* JSON.parse of one calculation.
parseCalculation(text) ==
    LET a == Len("{\"id\":") + 1
        b == Span(text, a, Digits)
        c == b + Len(",\"page\":\"")
    IN  [id |-> NatOf(SubSeq(text, a, b - 1), b - a),
         page |-> SubSeq(text, c, Len(text) - 2)]

\* JSON.stringify(this.calculations): the texts of the elements of the array.
stringifyCalculations(calculations) ==
    [i \in 1..Len(calculations) |-> stringifyCalculation(calculations[i])]

parseCalculations(texts) == [i \in 1..Len(texts) |-> parseCalculation(texts[i])]

\* list.slice(-n)
LastOf(list, n) ==
    IF Len(list) > n THEN SubSeq(list, Len(list) - n + 1, Len(list)) ELSE list

saveCalculations_head(calculations, calculation) ==
    LET pushed == Append(calculations, calculation)
    IN  IF Len(pushed) > HistoryLimit THEN SubSeq(pushed, 1, HistoryLimit) ELSE pushed

\* saveCalculations: the list after the push and the cut to the last 50.
saveCalculations(calculations, calculation) ==
    LET pushed == Append(calculations, calculation)
    IN  IF Len(pushed) > HistoryLimit THEN LastOf(pushed, HistoryLimit) ELSE pushed

\* getCurrentPage() of the page the model follows.
CurrentPage == "index"

appFrame ==
    << subject, analysis, run, electron, parserVars, clock, docState,
       validator, ocr, preprocessor, sw, calc, themeSwitcher,
       dropZones, loan >>

\* The page as the browser has loaded it, before DOMContentLoaded.
Loaded(old) ==
    [old EXCEPT !.pc = "loading", !.listeners = {InitializeListener},
                !.calculations = << >>, !.form = "", !.periods = 0]

\* saveFormData
saveFormData(a) == [a EXCEPT !.formData = stringifyForm(a.form)]

\* The whole of saveCalculations on the application state. Date.now() is read
\* as the number of the reading: every reading is later than the one before.
save(a) ==
    LET calculation == [id |-> a.now + 1, page |-> CurrentPage]
        kept == saveCalculations(a.calculations, calculation)
    IN  [a EXCEPT !.calculations = kept, !.now = a.now + 1,
                  !.stored = StoredHistory(stringifyCalculations(kept)),
                  !.log = Append(a.log, calculation)]

\* new LoanToolsApp(): setupEventListeners registers its listeners and
\* loadCalculations reads the stored history.
newLoanToolsApp(a) ==
    [a EXCEPT !.listeners = @ \cup {SetupListener, KeydownListener, UnloadListener},
              !.calculations = IF a.stored.present
                               THEN parseCalculations(a.stored.items)
                               ELSE << >>]

\* loadFormData
loadFormData(a) ==
    IF a.formData = NoItem THEN a ELSE [a EXCEPT !.form = parseForm(a.formData)]

\* setupAutoSave: the 30 second interval and a submit listener on each form.
setupAutoSave(a) ==
    [a EXCEPT !.listeners = @ \cup {AutoSaveInterval, SubmitListener}]

\* The browser dispatches DOMContentLoaded, once per page load, to the
\* listeners that are registered when the dispatch starts: a listener added
\* by one of them is not called for this event.
dispatchDOMContentLoaded ==
    /\ app.pc = "loading"
    /\ LET registered == app.listeners
           initialized == IF InitializeListener \in registered
                          THEN loadFormData(newLoanToolsApp(app)) ELSE app
           setUp == IF SetupListener \in registered
                    THEN setupAutoSave(initialized) ELSE initialized
       IN  app' = [setUp EXCEPT !.pc = "ready",
                                !.last = [op |-> "DOMContentLoaded"]]
    /\ UNCHANGED << appFrame >>

\* The user changes the form field.
edit(value) ==
    /\ app.pc = "ready"
    /\ app.form # value
    /\ app' = [app EXCEPT !.form = value, !.last = [op |-> "edit"]]
    /\ UNCHANGED << appFrame >>

\* The user submits the form: its submit listeners run.
submit ==
    /\ app.pc = "ready"
    /\ app' = [(IF SubmitListener \in app.listeners THEN saveFormData(app) ELSE app)
                    EXCEPT !.last = [op |-> "submit"]]
    /\ UNCHANGED << appFrame >>

\* Thirty seconds pass on the open page: the interval callbacks that are set run.
elapse30s ==
    /\ app.pc = "ready"
    /\ app.periods < MaxPeriods
    /\ app' = [(IF AutoSaveInterval \in app.listeners THEN saveFormData(app) ELSE app)
                    EXCEPT !.periods = app.periods + 1, !.last = [op |-> "elapse30s"]]
    /\ UNCHANGED << appFrame >>

\* keydown with Ctrl or Cmd held: 's' saves the calculation, 'n' starts a new
\* one (the form is cleared and its saved data removed).
keydown(key) ==
    /\ app.pc = "ready"
    /\ KeydownListener \in app.listeners
    /\ \/ /\ key = "s"
          /\ Len(app.log) < MaxSaves
          /\ app' = [save(app) EXCEPT !.last = [op |-> "keydown s"]]
       \/ /\ key = "n"
          /\ app' = [app EXCEPT !.form = "", !.formData = NoItem,
                                !.last = [op |-> "keydown n"]]
    /\ UNCHANGED << appFrame >>

\* The page is left or reloaded: the beforeunload listener saves, then the
\* browser loads the page anew.
beforeunload ==
    /\ app.pc = "ready"
    /\ Len(app.log) < MaxSaves
    /\ app' = [Loaded(IF UnloadListener \in app.listeners THEN save(app) ELSE app)
                    EXCEPT !.last = [op |-> "beforeunload"]]
    /\ UNCHANGED << appFrame >>

InitApp ==
    /\ ParserIdle
    /\ app = [pc |-> "loading", listeners |-> {InitializeListener},
              calculations |-> << >>, form |-> "", periods |-> 0, now |-> 0,
              stored |-> NoHistory, formData |-> NoItem, log |-> << >>,
              last |-> [op |-> "none"]]
    /\ validator = Off
    /\ ocr = Off
    /\ preprocessor = Off
    /\ sw = Off
    /\ calc = Off
    /\ themeSwitcher = Off
    /\ dropZones = Off
    /\ loan = Off

NextApp ==
    \/ dispatchDOMContentLoaded
    \/ \E value \in FormValues : edit(value)
    \/ submit
    \/ elapse30s
    \/ \E key \in {"s", "n"} : keydown(key)
    \/ beforeunload

SpecApp == InitApp /\ [][NextApp]_vars

\* C19: auto-save: after the application has been initialised on a page, the
\* page's form data is saved to localStorage every 30 seconds and on every form
\* submission.
C19_AutoSave ==
    app.last.op \in {"submit", "elapse30s"} => app.formData = stringifyForm(app.form)

\* C20: only the last 50 calculations are kept: after any sequence of
\* saveCalculations calls the history holds at most 50 entries, they are the
\* most recently saved ones in save order, and the localStorage item
\* 'loanTools_calculations' equals the in-memory list.
C20_LastFiftyKept ==
    /\ Len(app.calculations) <= HistoryLimit
    /\ app.stored.present =>
            parseCalculations(app.stored.items) = LastOf(app.log, HistoryLimit)
    /\ app.pc = "ready" =>
            /\ app.calculations = LastOf(app.log, HistoryLimit)
            /\ app.stored.present =>
                    app.stored.items = stringifyCalculations(app.calculations)

\* The fifty-second calculation was saved with Ctrl+S: the first two are gone.
C20_Witness ==
    /\ app.last.op = "keydown s"
    /\ Len(app.log) = HistoryLimit + 2
    /\ Len(app.calculations) = HistoryLimit
    /\ app.calculations[1].id = 3
    /\ app.calculations[HistoryLimit].id = HistoryLimit + 2

---------------------------------------------------------------------------
(* The drop zones of a page with the PDF parser: the listeners that          *)
(* initializeDropZones puts on them and the drop events they receive.        *)

\* The calls of initializeDropZones in one run of the model.
MaxCalls == 5

\* The elements that match '.pdf-drop-zone, #dropZone', in document order: the
\* zone of the page's markup and one that dynamic content adds later.
ZoneOrder == << "dropZone", "pdf-drop-zone" >>

EventTypes == {"dragover", "dragleave", "drop"}

dropZonesFrame ==
    << subject, analysis, run, electron, parserVars, clock, docState,
       validator, ocr, preprocessor, sw, calc, themeSwitcher, app, loan >>

\* zone.removeEventListener(type, fn): the listener of that type and that
\* function is taken off, when there is one.
removeEventListener(listeners, type, fn) == listeners \ {<< type, fn >>}

\* zone.addEventListener(type, fn): added unless the same function is already
\* registered for the type.
addEventListener(listeners, type, fn) == listeners \cup {<< type, fn >>}

\* The body of the forEach for one zone. Every this.handleX.bind(this) makes a
\* new function; functions are numbered as they are made, binds is the number
\* made so far.
initializeZone(listeners, binds) ==
    LET removed == removeEventListener(
                       removeEventListener(
                           removeEventListener(listeners, "dragover", binds + 1),
                           "dragleave", binds + 2),
                       "drop", binds + 3)
    IN  addEventListener(
            addEventListener(
                addEventListener(removed, "dragover", binds + 4),
                "dragleave", binds + 5),
            "drop", binds + 6)

\* initializeDropZones on the zones now in the document.
initializeDropZones(d) ==
    LET present == SelectSeq(ZoneOrder, LAMBDA zone : zone \in d.zones)
        binds(zone) == d.binds + 6 * (CHOOSE i \in 1..Len(present) : present[i] = zone) - 6
    IN  [d EXCEPT !.listeners = [zone \in DOMAIN @ |->
                                    IF zone \in d.zones
                                    THEN initializeZone(@[zone], binds(zone))
                                    ELSE @[zone]],
                  !.binds = @ + 6 * Len(present),
                  !.calls = @ + 1,
                  !.initialized = d.zones]

\* The 100 ms timer of initializeEventListeners fires.
timeout ==
    /\ dropZones.timer = "pending"
    /\ dropZones' = [initializeDropZones(dropZones) EXCEPT
                        !.timer = "fired", !.last = [op |-> "timeout", handled |-> 0]]
    /\ UNCHANGED << dropZonesFrame >>

\* The page changes below document.body: dynamic content is added, with a
\* drop zone in it or without; the MutationObserver has a record to deliver.
domChange(zones) ==
    /\ dropZones.calls + (IF dropZones.timer = "pending" THEN 1 ELSE 0) < MaxCalls
    /\ ~dropZones.mutated
    /\ dropZones.zones \subseteq zones
    /\ dropZones' = [dropZones EXCEPT !.zones = zones, !.mutated = TRUE,
                                      !.last = [op |-> "domChange", handled |-> 0]]
    /\ UNCHANGED << dropZonesFrame >>

\* The MutationObserver callback.
observe ==
    /\ dropZones.mutated
    /\ dropZones' = [initializeDropZones(dropZones) EXCEPT
                        !.mutated = FALSE, !.last = [op |-> "observe", handled |-> 0]]
    /\ UNCHANGED << dropZonesFrame >>

\* One PDF is dropped on a zone: every drop listener of the zone runs handleDrop
\* and processes the file; stopPropagation keeps the event from the document,
\* whose own drop listener runs only when the zone has none. Processing shows
\* notifications, which are appended to document.body.
drop(zone) ==
    /\ zone \in dropZones.zones
    /\ ~dropZones.mutated
    /\ LET onZone == {l \in dropZones.listeners[zone] : l[1] = "drop"}
           handled == IF onZone = {} THEN 1 ELSE Cardinality(onZone)
       IN  dropZones' = [dropZones EXCEPT
                            !.mutated = dropZones.calls
                                + (IF dropZones.timer = "pending" THEN 1 ELSE 0) < MaxCalls,
                            !.last = [op |-> "drop", handled |-> handled]]
    /\ UNCHANGED << dropZonesFrame >>

InitDropZones ==
    /\ ParserIdle
    /\ dropZones = [pc |-> "on", zones |-> {ZoneOrder[1]},
                    listeners |-> [zone \in {ZoneOrder[1], ZoneOrder[2]} |-> {}],
                    binds |-> 0, calls |-> 0, initialized |-> {},
                    timer |-> "pending", mutated |-> FALSE,
                    last |-> [op |-> "none", handled |-> 0]]
    /\ validator = Off
    /\ ocr = Off
    /\ preprocessor = Off
    /\ sw = Off
    /\ calc = Off
    /\ themeSwitcher = Off
    /\ app = Off
    /\ loan = Off

NextDropZones ==
    \/ timeout
    \/ \E zones \in SUBSET {ZoneOrder[1], ZoneOrder[2]} : domChange(zones)
    \/ observe
    \/ \E zone \in {ZoneOrder[1], ZoneOrder[2]} : drop(zone)

SpecDropZones == InitDropZones /\ [][NextDropZones]_vars

\* C22: initializeDropZones prevents duplicate listeners: after any number of
\* calls each drop zone carries exactly one dragover, one dragleave and one drop
\* handler, so a PDF dropped once on a zone is processed exactly once.
C22_NoDuplicateListeners ==
    /\ \A zone \in dropZones.initialized : \A type \in EventTypes :
            Cardinality({l \in dropZones.listeners[zone] : l[1] = type}) = 1
    /\ dropZones.last.op = "drop" => dropZones.last.handled = 1

---------------------------------------------------------------------------
(* JavaScript number arithmetic of the calculator. A number is a decimal    *)
(* floating-point value m * 10^e with Precision significant digits; every   *)
(* operation rounds its exact result to the nearest such value, as the       *)
(* binary doubles of JavaScript do with 53 bits.                             *)

Precision == 8

RECURSIVE Pow10(_)
Pow10(k) == IF k = 0 THEN 1 ELSE 10 * Pow10(k - 1)

Zero == [m |-> 0, e |-> 0]

\* The element of a one-element set. In { f(v) : v \in {expression} } the
\* expression is evaluated once, as the operand of a JavaScript operator is.
Value(set) == CHOOSE v \in set : TRUE

\* The number of decimal digits of a natural number below 2^31.
NumDigits(a) ==
    IF a >= Pow10(9) THEN 10
    ELSE CHOOSE k \in 1..9 : a < Pow10(k) /\ (k = 1 \/ a >= Pow10(k - 1))

\* sign * a * 10^e rounded to Precision digits (a >= 0).
Rounded(sign, a, e) ==
    LET k == NumDigits(a)
        shift == k - Precision
        q == a \div Pow10(shift)
        r == a % Pow10(shift)
        up == IF 2 * r >= Pow10(shift) THEN q + 1 ELSE q
    IN  IF a = 0 THEN Zero
        ELSE IF k <= Precision
        THEN [m |-> sign * a * Pow10(Precision - k), e |-> e - (Precision - k)]
        ELSE IF up = Pow10(Precision)
        THEN [m |-> sign * Pow10(Precision - 1), e |-> e + shift + 1]
        ELSE [m |-> sign * up, e |-> e + shift]

Round(sign, a, e) == Value({ Rounded(sign, v, e) : v \in {a} })

Sign(v) == IF v < 0 THEN -1 ELSE 1

Magnitude(v) == IF v < 0 THEN -v ELSE v

\* The number v * 10^e for an integer v.
Float(v, e) == Round(Sign(v), Magnitude(v), e)

Neg(x) == [m |-> -x.m, e |-> x.e]

\* x * y: the product of the mantissas is formed from their halves, to nine
\* or ten digits, and rounded.
Product(x, y) ==
    LET a == Magnitude(x.m)
        b == Magnitude(y.m)
        half == Pow10(4)
        hi == (a \div half) * (b \div half)
        mid == (a \div half) * (b % half) + (a % half) * (b \div half)
        rest == mid + ((a % half) * (b % half)) \div half
        sign == Sign(x.m) * Sign(y.m)
    IN  IF x.m = 0 \/ y.m = 0 THEN Zero
        ELSE IF hi < Pow10(7)
        THEN Round(sign, hi * 100 + rest \div 100, x.e + y.e + 6)
        ELSE Round(sign, hi * 10 + rest \div 1000, x.e + y.e + 7)

Mul(x, y) == Value({ Product(a, b) : a \in {x}, b \in {y} })

RECURSIVE LongDivision(_, _, _, _)
\* n further digits of the quotient q, remainder r, divisor b.
LongDivision(n, q, r, b) ==
    IF n = 0 THEN q
    ELSE LongDivision(n - 1, 10 * q + (10 * r) \div b, (10 * r) % b, b)

\* x / y for y # 0: nine digits of the quotient, rounded.
Quotient(x, y) ==
    LET a == Magnitude(x.m)
        b == Magnitude(y.m)
        sign == Sign(x.m) * Sign(y.m)
    IN  IF x.m = 0 THEN Zero
        ELSE IF a >= b
        THEN Round(sign, LongDivision(8, a \div b, a % b, b), x.e - y.e - 8)
        ELSE Round(sign, LongDivision(9, 0, a, b), x.e - y.e - 9)

Div(x, y) == Value({ Quotient(a, b) : a \in {x}, b \in {y} })

\* x + y: the number of the smaller exponent is brought to one digit below
\* the other's last digit, the sum is rounded.
Total(x, y) ==
    LET hi == IF x.e >= y.e THEN x ELSE y
        lo == IF x.e >= y.e THEN y ELSE x
        d == hi.e - lo.e
        low == Magnitude(lo.m)
        scaled == IF d <= 1 THEN low
                  ELSE IF d > 10 THEN 0
                  ELSE (low + Pow10(d - 1) \div 2) \div Pow10(d - 1)
        sum == IF d = 0 THEN hi.m + lo.m ELSE 10 * hi.m + Sign(lo.m) * scaled
    IN  IF x.m = 0 THEN y
        ELSE IF y.m = 0 THEN x
        ELSE Float(sum, IF d = 0 THEN hi.e ELSE hi.e - 1)

Add(x, y) == Value({ Total(a, b) : a \in {x}, b \in {y} })

Sub(x, y) == Add(x, Neg(y))

Less(x, y) == Sub(x, y).m < 0

LessEq(x, y) == Sub(x, y).m <= 0

\* Math.max(0, x)
Max0(x) == IF x.m < 0 THEN Zero ELSE x

RECURSIVE pow(_, _)
\* Math.pow(x, n) for a natural number n.
pow(x, n) ==
    IF n = 0 THEN Float(1, 0)
    ELSE IF n = 1 THEN x
    ELSE Value({ IF n % 2 = 0 THEN Mul(root, root) ELSE Mul(Mul(root, root), x) :
                    root \in {pow(x, n \div 2)} })

---------------------------------------------------------------------------
(* buydown.js: the payments of a buydown and the remaining-credit chart.    *)
(* loan.state is the state read from the form, loan.results what debug()    *)
(* last returned, loan.remaining the series of the chart being shown.       *)

loanFrame ==
    << subject, analysis, run, electron, parserVars, clock, docState,
       validator, ocr, preprocessor, sw, calc, themeSwitcher, app, dropZones >>

Twelve == Float(12, 0)

calculateMonthlyPayment(principal, annualRate, years) ==
    LET numberOfPayments == years * 12
        payment(monthlyRate, growth) ==
            Div(Mul(principal, Mul(monthlyRate, growth)), Sub(growth, Float(1, 0)))
    IN  IF LessEq(principal, Zero) \/ LessEq(annualRate, Zero) \/ years <= 0
        THEN Zero
        ELSE Value({ IF monthlyRate = Zero
                     THEN Div(principal, Float(numberOfPayments, 0))
                     ELSE Value({ payment(monthlyRate, growth) :
                            growth \in {pow(Add(Float(1, 0), monthlyRate),
                                            numberOfPayments)} }) :
                     monthlyRate \in {Div(Div(annualRate, Float(100, 0)), Twelve)} })

\* The rates of year1 .. year4.
getBuydownRates(buydownType, noteRate) ==
    CASE buydownType = "3-2-1" ->
            << Sub(noteRate, Float(3, 0)), Sub(noteRate, Float(2, 0)),
               Sub(noteRate, Float(1, 0)), noteRate >>
      [] buydownType = "2-1" ->
            << Sub(noteRate, Float(2, 0)), Sub(noteRate, Float(1, 0)),
               noteRate, noteRate >>
      [] buydownType = "1-0" ->
            << Sub(noteRate, Float(1, 0)), noteRate, noteRate, noteRate >>
      [] OTHER -> << noteRate, noteRate, noteRate, noteRate >>

calculateBuydownCost(loanAmount, noteRate, buydownRates, loanTerm) ==
    LET basePayment == calculateMonthlyPayment(loanAmount, noteRate, loanTerm)
        yearlySavings(year) ==
            Mul(Sub(basePayment,
                    calculateMonthlyPayment(loanAmount, buydownRates[year], loanTerm)),
                Twelve)
    IN  Add(Add(Add(Zero, yearlySavings(1)), yearlySavings(2)), yearlySavings(3))

calculateYearlyPayments(loanAmount, buydownRates, loanTerm, includeTaxes, includeInsurance, taxes, insurance, hoa) ==
    LET monthlyTaxes == Div(taxes, Twelve)
        monthlyInsurance == Div(insurance, Twelve)
        monthlyHOA == Div(hoa, Twelve)
        withTaxes(payment) ==
            IF includeTaxes THEN Add(payment, monthlyTaxes) ELSE payment
        withInsurance(payment) ==
            IF includeInsurance THEN Add(payment, monthlyInsurance) ELSE payment
        withHOA(payment) ==
            IF Less(Zero, hoa) THEN Add(payment, monthlyHOA) ELSE payment
    IN  [year \in 1..4 |->
            LET principalInterest ==
                    calculateMonthlyPayment(loanAmount, buydownRates[year], loanTerm)
            IN  [year |-> year, rate |-> buydownRates[year],
                 principalInterest |-> principalInterest,
                 totalPayment |-> withHOA(withInsurance(withTaxes(principalInterest)))]]

calculateResults(state) ==
    LET buydownRates == getBuydownRates(state.buydownType, state.noteRate)
        basePayment ==
            calculateMonthlyPayment(state.loanAmount, state.noteRate, state.loanTerm)
        year1Payment ==
            calculateMonthlyPayment(state.loanAmount, buydownRates[1], state.loanTerm)
    IN  [buydownRates |-> buydownRates,
         basePayment |-> basePayment,
         year1Payment |-> year1Payment,
         monthlySavings |-> Sub(basePayment, year1Payment),
         totalCost |-> calculateBuydownCost(state.loanAmount, state.noteRate,
                                            buydownRates, state.loanTerm),
         yearlyPayments |->
            calculateYearlyPayments(state.loanAmount, buydownRates, state.loanTerm,
                                    state.includeTaxes, state.includeInsurance,
                                    state.propertyTaxes, state.insurance, state.hoa)]

\* The months of the buydown period of a type.
ChartMonths(buydownType) ==
    CASE buydownType = "3-2-1" -> 36
      [] buydownType = "2-1" -> 24
      [] buydownType = "1-0" -> 12
      [] OTHER -> -1

\* The series `remaining' of the chart: its value of month k is at k + 1.
createRemainingChart(yearlyPayments, buydownType, totalCost) ==
    LET fullPayment == yearlyPayments[4].totalPayment
        reduced(year, months) ==
            Mul(Sub(fullPayment, yearlyPayments[year].totalPayment),
                Float(months, 0))
        monthlyUsed(month) ==
            IF month <= 12 \/ buydownType = "1-0"
            THEN reduced(1, month)
            ELSE IF month <= 24 \/ buydownType = "2-1"
            THEN Add(reduced(1, 12), reduced(2, month - 12))
            ELSE Add(Add(reduced(1, 12), reduced(2, 12)), reduced(3, month - 24))
    IN  [index \in 1..(ChartMonths(buydownType) + 1) |->
            Max0(Sub(totalCost, monthlyUsed(index - 1)))]

NoResults == [pc |-> "none"]

\* The form values the calculator is opened with.
LoanAmounts == {Float(100000, 0), Float(250000, 0)}

NoteRates == {Float(25, -1), Float(3, 0), Float(65, -1), Float(7, 0)}

LoanTerms == {15, 30}

BuydownTypes == {"3-2-1", "2-1", "1-0"}

Extras ==
    { [includeTaxes |-> FALSE, includeInsurance |-> FALSE,
       propertyTaxes |-> Zero, insurance |-> Zero, hoa |-> Zero],
      [includeTaxes |-> TRUE, includeInsurance |-> TRUE,
       propertyTaxes |-> Float(3600, 0), insurance |-> Float(1200, 0), hoa |-> Zero],
      [includeTaxes |-> FALSE, includeInsurance |-> FALSE,
       propertyTaxes |-> Float(3600, 0), insurance |-> Float(1200, 0),
       hoa |-> Float(600, 0)] }

\* window.BuydownCalculator.debug()
debug ==
    /\ loan.pc = "ready"
    /\ \E results \in {calculateResults(loan.state)} :
            loan' = [loan EXCEPT !.results = [pc |-> "done"] @@ results]
    /\ UNCHANGED << loanFrame >>

\* The click listener of #btnRemainingChart.
btnRemainingChart ==
    /\ loan.pc = "ready"
    /\ \E state \in {loan.state} : \E results \in {calculateResults(state)} :
            loan' = [loan EXCEPT
                !.remaining = createRemainingChart(results.yearlyPayments,
                                      state.buydownType, results.totalCost),
                !.totalCost = results.totalCost,
                !.chart = "remaining"]
    /\ UNCHANGED << loanFrame >>

InitLoan ==
    /\ ParserIdle
    /\ \E loanAmount \in LoanAmounts, noteRate \in NoteRates,
          loanTerm \in LoanTerms, buydownType \in BuydownTypes, extras \in Extras :
            loan = [pc |-> "ready",
                    state |-> [loanAmount |-> loanAmount, noteRate |-> noteRate,
                               loanTerm |-> loanTerm, buydownType |-> buydownType]
                              @@ extras,
                    results |-> NoResults,
                    remaining |-> << >>,
                    totalCost |-> Zero,
                    chart |-> "none"]
    /\ validator = Off
    /\ ocr = Off
    /\ preprocessor = Off
    /\ sw = Off
    /\ calc = Off
    /\ themeSwitcher = Off
    /\ app = Off
    /\ dropZones = Off

NextLoan ==
    \/ debug
    \/ btnRemainingChart

SpecLoan == InitLoan /\ [][NextLoan]_vars

\* The years of a buydown type in which the rate is bought down.
BoughtDownYears(buydownType) == 1..(ChartMonths(buydownType) \div 12)

\* C25: for a loan with loanAmount > 0, loanTerm > 0 and noteRate > 0 and
\* each buydown type, the principal-and-interest payment of every bought-down
\* year is strictly positive and not greater than the full-rate payment, and
\* the monthly savings are >= 0 and strictly less than the base payment.
C25_BoughtDownPaymentsPositive ==
    (/\ loan.pc = "ready"
     /\ loan.results.pc = "done"
     /\ Less(Zero, loan.state.loanAmount)
     /\ loan.state.loanTerm > 0
     /\ Less(Zero, loan.state.noteRate))
    => /\ \A year \in BoughtDownYears(loan.state.buydownType) :
            LET payment == loan.results.yearlyPayments[year].principalInterest
            IN  /\ Less(Zero, payment)
                /\ LessEq(payment, loan.results.basePayment)
       /\ LessEq(Zero, loan.results.monthlySavings)
       /\ Less(loan.results.monthlySavings, loan.results.basePayment)

\* C26: in the remaining-credit series of a buydown type the value of month
\* 0 is the total buydown cost, no value is greater than the one before it
\* or below 0, and the value of the last month of the buydown period is 0,
\* whatever taxes, insurance and HOA the payments include.
C26_RemainingCreditRunsOut ==
    (loan.pc = "ready" /\ loan.chart = "remaining")
    => LET remaining == loan.remaining
           last == ChartMonths(loan.state.buydownType) + 1
       IN  /\ Len(remaining) = last
           /\ remaining[1] = loan.totalCost
           /\ \A index \in 1..(last - 1) :
                LessEq(remaining[index + 1], remaining[index])
           /\ \A index \in 1..last : LessEq(Zero, remaining[index])
           /\ remaining[last] = Zero

====
